---- MODULE Spec2Model ----
(***************************************************************************)
(* Model of the ml-sports-edge core: cross-book event matching             *)
(* (EVCalculator._match_events), devigging and expected value              *)
(* (PinnacleScraper.devig_odds / calculate_ev,                             *)
(* EVCalculator._calculate_ev_bet), the model ensemble                     *)
(* (Predictor._make_predictions) and the value-bet selector                *)
(* (Predictor.get_value_bets).                                             *)
(*                                                                         *)
(* Python floats are modelled as exact rationals [n, d] in lowest terms    *)
(* with d > 0; float('inf') is Inf and None / NaN are distinguished        *)
(* records of the same shape.  Where the rounding of the arithmetic        *)
(* matters (calculate_ev at the fair price) floats are IEEE binary64       *)
(* values [s, b, x]: sign, the bits of an odd significand and a binary     *)
(* exponent, rounded to nearest even as CPython does.                      *)
(*                                                                         *)
(* EVCalculator.find_ev_bets is modelled with the responses of the two     *)
(* scrapers as inputs; files is the output directory it saves to.  The     *)
(* fetches of the scrapers and of the ESPN client are modelled with the    *)
(* answer of the network as an input; cache holds their cache files.       *)
(***************************************************************************)
EXTENDS Integers, Sequences, FiniteSets, TLC

VARIABLES pc, call, ret, files, cache

vars == <<pc, call, ret, files, cache>>

(***************************************************************************)
(* Bounds                                                                  *)
(***************************************************************************)
\* largest decimal price quoted by either book
MaxPrice == 4
\* largest number of loaded models
MaxModels == 3
\* largest number of rows (events) of a feature table
MaxRows == 1
\* largest number of rows (events) of a predictions table
MaxBets == 2
\* largest number of events listed by one sportsbook
MaxEvents == 2
\* largest binary64 price of calculate_ev, in quarters (50 / 4 = 12.5)
MaxQuarters == 50
\* number of seconds in which calls are made on the output directory
MaxTime == 3

(***************************************************************************)
(* Numbers                                                                 *)
(***************************************************************************)
None == [n |-> 0, d |-> 0]
NaN == [n |-> 0, d |-> 0]
Inf == [n |-> 1, d |-> 0]

Abs(x) == IF x < 0 THEN -x ELSE x

RECURSIVE GCD(_, _)
GCD(a, b) == IF b = 0 THEN a ELSE GCD(b, a % b)

\* the rational n/d (d # 0) in lowest terms with a positive denominator
Frac(n, d) ==
    LET g == GCD(Abs(n), Abs(d))
        s == IF d < 0 THEN -1 ELSE 1
    IN  [n |-> (s * n) \div g, d |-> (s * d) \div g]

Num(k) == [n |-> k, d |-> 1]
Zero == Num(0)
One == Num(1)

IsNum(x) == x.d > 0
Add(x, y) == Frac(x.n * y.d + y.n * x.d, x.d * y.d)
Sub(x, y) == Frac(x.n * y.d - y.n * x.d, x.d * y.d)
Mul(x, y) == Frac(x.n * y.n, x.d * y.d)
\* x / y for finite x and a finite non-zero or infinite y (x / inf = 0.0)
Div(x, y) == IF y = Inf THEN Zero ELSE Frac(x.n * y.d, x.d * y.n)
Lt(x, y) == x.n * y.d < y.n * x.d
Gt(x, y) == Lt(y, x)
Le(x, y) == ~Lt(y, x)
Ge(x, y) == ~Lt(x, y)

\* Python truthiness of an Optional[float]: None and 0.0 are falsy
Truthy(x) == x # None /\ x.n # 0

(***************************************************************************)
(* PinnacleScraper.devig_odds                                              *)
(***************************************************************************)
Raise(e) ==
    [raised |-> e,
     fair_home_odds |-> None, fair_away_odds |-> None, fair_draw_odds |-> None,
     fair_home_prob |-> None, fair_away_prob |-> None, fair_draw_prob |-> None,
     overround |-> None]

\* implied probability of a decimal price (lines 235-237)
implied_prob(odds) == Div(One, odds)

\* a plausible slip: the draw leg left out of the margin
overround_no_draw(home_prob, away_prob, draw_prob) == Add(home_prob, away_prob)

\* overround (margin): the sum of the implied probabilities (line 240)
overround_sum(home_prob, away_prob, draw_prob) ==
    Add(Add(home_prob, away_prob), draw_prob)

\* a plausible slip: the implied probability returned without rescaling
fair_prob_raw(prob, overround) == prob

\* fair probability: implied probability rescaled by the overround (lines 243-245)
fair_prob_of(prob, overround) == Div(prob, overround)

devig_odds(home_odds, away_odds, draw_odds) ==
    IF home_odds = None \/ away_odds = None THEN Raise("TypeError")
    ELSE IF home_odds.n = 0 \/ away_odds.n = 0 THEN Raise("ZeroDivisionError")
    ELSE
    LET home_prob == implied_prob(home_odds)
        away_prob == implied_prob(away_odds)
        draw_prob == IF Truthy(draw_odds) THEN implied_prob(draw_odds) ELSE Zero
        overround == overround_sum(home_prob, away_prob, draw_prob)
    IN  IF overround.n = 0 THEN Raise("ZeroDivisionError")
        ELSE
        LET fair_home_prob == fair_prob_of(home_prob, overround)
            fair_away_prob == fair_prob_of(away_prob, overround)
            fair_draw_prob == IF Truthy(draw_odds) THEN fair_prob_of(draw_prob, overround) ELSE Zero
            fair_home_odds == IF Gt(fair_home_prob, Zero) THEN Div(One, fair_home_prob) ELSE Inf
            fair_away_odds == IF Gt(fair_away_prob, Zero) THEN Div(One, fair_away_prob) ELSE Inf
            fair_draw_odds == IF Gt(fair_draw_prob, Zero) THEN Div(One, fair_draw_prob) ELSE Inf
        IN  [raised |-> "",
             fair_home_odds |-> fair_home_odds,
             fair_away_odds |-> fair_away_odds,
             fair_draw_odds |-> IF Truthy(draw_odds) THEN fair_draw_odds ELSE None,
             fair_home_prob |-> fair_home_prob,
             fair_away_prob |-> fair_away_prob,
             fair_draw_prob |-> IF Truthy(draw_odds) THEN fair_draw_prob ELSE None,
             overround |-> overround]

(***************************************************************************)
(* PinnacleScraper.calculate_ev (odds and fair_odds non-zero numbers)      *)
(***************************************************************************)
calculate_ev(odds, fair_odds) ==
    LET fair_prob == Div(One, fair_odds)
        ev == Sub(Mul(odds, fair_prob), One)
    IN  Mul(ev, Num(100))

(***************************************************************************)
(* Moneyline dictionaries: a Python dict over a subset of the three keys   *)
(***************************************************************************)
OddsKeys == {"home_odds", "away_odds", "draw_odds"}

\* dict.get(key) with the default None
Get(d, key) == IF key \in DOMAIN d THEN d[key] ELSE None

\* decimal prices a feed can carry: valid ones, 1.0, and the invalid 0 and -2
Prices == {Num(-2), Num(0)} \cup {Num(k) : k \in 1..MaxPrice}

OddsDicts == UNION {[K -> Prices \cup {None}] : K \in SUBSET OddsKeys}

(***************************************************************************)
(* EVCalculator._calculate_ev_bet                                          *)
(***************************************************************************)
NoBet(kind, e) ==
    [kind |-> kind, raised |-> e,
     pinnacle_home_odds |-> None, pinnacle_away_odds |-> None, pinnacle_draw_odds |-> None,
     betmgm_home_odds |-> None, betmgm_away_odds |-> None, betmgm_draw_odds |-> None,
     fair_home_odds |-> None, fair_away_odds |-> None, fair_draw_odds |-> None,
     home_ev |-> None, away_ev |-> None, draw_ev |-> None,
     best_bet |-> "", max_ev |-> None]

\* a plausible slip: the Pinnacle away price is not checked
has_all_odds_but_one(pinnacle_home, pinnacle_away, betmgm_home, betmgm_away) ==
    Truthy(pinnacle_home) /\ Truthy(betmgm_home) /\ Truthy(betmgm_away)

\* the negation of the test of line 201: all four prices are truthy
has_all_odds(pinnacle_home, pinnacle_away, betmgm_home, betmgm_away) ==
    Truthy(pinnacle_home) /\ Truthy(pinnacle_away)
    /\ Truthy(betmgm_home) /\ Truthy(betmgm_away)

_calculate_ev_bet(pinnacle_odds, betmgm_odds) ==
    IF DOMAIN pinnacle_odds = {} \/ DOMAIN betmgm_odds = {} THEN NoBet("None", "")
    ELSE
    LET pinnacle_home == Get(pinnacle_odds, "home_odds")
        pinnacle_away == Get(pinnacle_odds, "away_odds")
        pinnacle_draw == Get(pinnacle_odds, "draw_odds")
        betmgm_home == Get(betmgm_odds, "home_odds")
        betmgm_away == Get(betmgm_odds, "away_odds")
        betmgm_draw == Get(betmgm_odds, "draw_odds")
    IN  IF ~has_all_odds(pinnacle_home, pinnacle_away, betmgm_home, betmgm_away)
        THEN NoBet("None", "")
        ELSE
        LET fair_odds == devig_odds(pinnacle_home, pinnacle_away, pinnacle_draw)
        IN  IF fair_odds.raised # "" THEN NoBet("raise", fair_odds.raised)
            ELSE
            LET home_ev == calculate_ev(betmgm_home, fair_odds.fair_home_odds)
                away_ev == calculate_ev(betmgm_away, fair_odds.fair_away_odds)
                draw_ev == IF Truthy(pinnacle_draw) /\ Truthy(betmgm_draw)
                              /\ Truthy(fair_odds.fair_draw_odds)
                           THEN calculate_ev(betmgm_draw, fair_odds.fair_draw_odds)
                           ELSE None
                takeAway == Gt(away_ev, home_ev)
                best1 == IF takeAway THEN "away" ELSE "home"
                max1 == IF takeAway THEN away_ev ELSE home_ev
                takeDraw == Truthy(draw_ev) /\ Gt(draw_ev, max1)
            IN  [kind |-> "EVBet", raised |-> "",
                 pinnacle_home_odds |-> pinnacle_home,
                 pinnacle_away_odds |-> pinnacle_away,
                 pinnacle_draw_odds |-> pinnacle_draw,
                 betmgm_home_odds |-> betmgm_home,
                 betmgm_away_odds |-> betmgm_away,
                 betmgm_draw_odds |-> betmgm_draw,
                 fair_home_odds |-> fair_odds.fair_home_odds,
                 fair_away_odds |-> fair_odds.fair_away_odds,
                 fair_draw_odds |-> fair_odds.fair_draw_odds,
                 home_ev |-> home_ev, away_ev |-> away_ev, draw_ev |-> draw_ev,
                 best_bet |-> IF takeDraw THEN "draw" ELSE best1,
                 max_ev |-> IF takeDraw THEN draw_ev ELSE max1]

(***************************************************************************)
(* Specification SpecEV: one call of devig_odds or of _calculate_ev_bet    *)
(***************************************************************************)
NoRet == [kind |-> "pending"]

\* the output directory of the EV calculator before anything was saved
NoFiles == {}

\* the cache directories of the scrapers before any response was cached: a
\* function from the names of the cache files to their entries
NoCache == <<>>

InitEV ==
    /\ pc = "call"
    /\ ret = NoRet
    /\ files = NoFiles
    /\ cache = NoCache
    /\ \/ \E h \in Prices, a \in Prices, d \in Prices \cup {None} :
             call = [op |-> "devig_odds", home_odds |-> h, away_odds |-> a, draw_odds |-> d]
       \/ \E p \in OddsDicts, b \in OddsDicts :
             call = [op |-> "_calculate_ev_bet", pinnacle_odds |-> p, betmgm_odds |-> b]

DevigOdds ==
    /\ pc = "call"
    /\ call.op = "devig_odds"
    /\ ret' = devig_odds(call.home_odds, call.away_odds, call.draw_odds)
    /\ pc' = "done"
    /\ UNCHANGED <<call, files, cache>>

CalculateEvBet ==
    /\ pc = "call"
    /\ call.op = "_calculate_ev_bet"
    /\ ret' = _calculate_ev_bet(call.pinnacle_odds, call.betmgm_odds)
    /\ pc' = "done"
    /\ UNCHANGED <<call, files, cache>>

NextEV == DevigOdds \/ CalculateEvBet

SpecEV == InitEV /\ [][NextEV]_vars

(***************************************************************************)
(* Binary floating point.  A Python float is an IEEE 754 binary64 number:  *)
(* s * B * 2^x with s the sign, B a natural number of at most MantissaBits *)
(* bits and x the exponent.  B is kept as its sequence of bits, least      *)
(* significant first, without low or high zero bits, so that equal numbers *)
(* are equal records.  Every operation computes the exact result and       *)
(* rounds it to nearest, ties to even.  Exponents stay far away from the   *)
(* overflow and subnormal ranges.                                          *)
(***************************************************************************)
MantissaBits == 53

FZero == [s |-> 0, b |-> <<>>, x |-> 0]

RECURSIVE ToBits(_)
\* the bits of a small natural number n
ToBits(n) == IF n = 0 THEN <<>> ELSE <<n % 2>> \o ToBits(n \div 2)

RECURSIVE FromBits(_)
\* the natural number of a short sequence of bits
FromBits(bits) == IF bits = <<>> THEN 0 ELSE Head(bits) + 2 * FromBits(Tail(bits))

\* the positions of the one bits
Ones(bits) == {i \in DOMAIN bits : bits[i] = 1}

\* the largest and the smallest element of a non-empty set of integers
Highest(S) == CHOOSE i \in S : \A j \in S : j <= i
Lowest(S) == CHOOSE i \in S : \A j \in S : i <= j

\* the bits without their high zeros
TrimHigh(bits) ==
    IF Ones(bits) = {} THEN <<>> ELSE SubSeq(bits, 1, Highest(Ones(bits)))

\* B + 1: the low ones become zeros and the first zero becomes a one
Increment(bits) ==
    LET zeros == {i \in DOMAIN bits : bits[i] = 0}
        j == IF zeros = {} THEN Len(bits) + 1 ELSE Lowest(zeros)
    IN  [i \in 1..(IF j > Len(bits) THEN j ELSE Len(bits)) |->
            IF i < j THEN 0 ELSE IF i = j THEN 1 ELSE bits[i]]

\* the record of s * bits * 2^x, bits without high zeros: the low zeros
\* move into the exponent
Normal(s, bits, x) ==
    IF Ones(bits) = {} THEN FZero
    ELSE LET low == Lowest(Ones(bits))
         IN  [s |-> s, b |-> SubSeq(bits, low, Len(bits)), x |-> x + low - 1]

\* s * bits0 * 2^x rounded to MantissaBits bits, to nearest, ties to even
FRound(s, bits0, x) ==
    LET bits == TrimHigh(bits0)
        cut == Len(bits) - MantissaBits
    IN  IF cut <= 0 THEN Normal(s, bits, x)
        ELSE LET kept == SubSeq(bits, cut + 1, Len(bits))
                 guard == bits[cut]
                 sticky == \E i \in 1..(cut - 1) : bits[i] = 1
                 up == guard = 1 /\ (sticky \/ kept[1] = 1)
             IN  Normal(s, IF up THEN Increment(kept) ELSE kept, x + cut)

\* the float m * 2^e of a small natural number m
Float(m, e) == Normal(1, ToBits(m), e)

FOne == Float(1, 0)

RECURSIVE PowMod(_, _)
\* 2^j mod m by repeated squaring
PowMod(j, m) ==
    IF j = 0 THEN 1 % m
    ELSE LET h == PowMod(j \div 2, m)
         IN  (h * h * (IF j % 2 = 1 THEN 2 ELSE 1)) % m

\* the j-th quotient bit of the long division of 1 by m (the bit of weight
\* 2^-j): the remainder 2^(j-1) mod m of the step before is doubled and
\* compared with m
QuotientBit(j, m) ==
    IF j = 0 THEN (IF m = 1 THEN 1 ELSE 0)
    ELSE IF 2 * PowMod(j - 1, m) >= m THEN 1 ELSE 0

\* long division of 2^k by m: the quotient (k + 1 bits) and the remainder
DivPow2(k, m) ==
    [q |-> [i \in 1..(k + 1) |-> QuotientBit(k + 1 - i, m)], r |-> PowMod(k, m)]

\* 1 / f for a float f # 0 with a short mantissa: the quotient is computed
\* to MantissaBits + 1 bits, a last bit records a non-zero remainder
FRecip(f) ==
    LET m == FromBits(f.b)
        k == Len(f.b) + MantissaBits
        d == DivPow2(k, m)
    IN  FRound(f.s, <<IF d.r = 0 THEN 0 ELSE 1>> \o d.q, (0 - k) - 1 - f.x)

\* bit i of a bit sequence, 0 beyond its length
BitAt(bits, i) == IF i \in DOMAIN bits THEN bits[i] ELSE 0

\* A + B: the carry into position i comes from the highest position below i
\* that does not propagate
BigAdd(A, B) ==
    LET n == (IF Len(A) > Len(B) THEN Len(A) ELSE Len(B)) + 1
        carry(i) == \E j \in 1..(i - 1) :
                        /\ BitAt(A, j) + BitAt(B, j) = 2
                        /\ \A k \in (j + 1)..(i - 1) : BitAt(A, k) + BitAt(B, k) = 1
    IN  [i \in 1..n |-> (BitAt(A, i) + BitAt(B, i) + (IF carry(i) THEN 1 ELSE 0)) % 2]

RECURSIVE MulInt(_, _)
\* bits * n for a small natural number n, by shifting and adding
MulInt(bits, n) ==
    IF n = 0 THEN <<>>
    ELSE BigAdd(IF n % 2 = 1 THEN bits ELSE <<>>, <<0>> \o MulInt(bits, n \div 2))

\* a * f for a float a with a short mantissa
FMul(a, f) == FRound(a.s * f.s, MulInt(f.b, FromBits(a.b)), a.x + f.x)

\* bits * 2^n
Pad(bits, n) == [i \in 1..n |-> 0] \o bits

\* A < B: at the highest position where they differ A has the zero
BigLess(A, B) ==
    \E i \in DOMAIN B :
        /\ BitAt(A, i) < B[i]
        /\ \A j \in (i + 1)..(IF Len(A) > Len(B) THEN Len(A) ELSE Len(B)) :
              BitAt(A, j) = BitAt(B, j)

\* A - B for A >= B: position i borrows when the bits of A below i are
\* less than those of B
BigSub(A, B) ==
    LET borrow(i) == \E j \in 1..(i - 1) :
                         /\ BitAt(A, j) < BitAt(B, j)
                         /\ \A k \in (j + 1)..(i - 1) : BitAt(A, k) = BitAt(B, k)
    IN  [i \in DOMAIN A |-> (A[i] - BitAt(B, i) - (IF borrow(i) THEN 1 ELSE 0) + 2) % 2]

\* a - c for positive floats a and c
FSub(a, c) ==
    LET x == IF a.x < c.x THEN a.x ELSE c.x
        A == Pad(a.b, a.x - x)
        C == Pad(c.b, c.x - x)
    IN  IF A = C THEN FZero
        ELSE IF BigLess(A, C) THEN FRound(0 - 1, BigSub(C, A), x)
        ELSE FRound(1, BigSub(A, C), x)

(***************************************************************************)
(* PinnacleScraper.calculate_ev in binary64 arithmetic (odds and fair_odds *)
(* positive floats with short mantissas)                                   *)
(***************************************************************************)
\* a plausible slip: the EV returned as a fraction, not as a percentage
calculate_ev_fraction(odds, fair_odds) ==
    LET fair_prob == FRecip(fair_odds)
    IN  FSub(FMul(odds, fair_prob), FOne)

calculate_ev_float(odds, fair_odds) ==
    LET fair_prob == FRecip(fair_odds)
        ev == FSub(FMul(odds, fair_prob), FOne)
    IN  FMul(Float(100, 0), ev)

(***************************************************************************)
(* Specification SpecFloat: one call of calculate_ev on binary64 prices    *)
(***************************************************************************)
\* the decimal prices 1.25, 1.5, ..., MaxQuarters / 4
QuarterPrices == {Float(k, 0 - 2) : k \in 5..MaxQuarters}

InitFloat ==
    /\ pc = "call"
    /\ ret = NoRet
    /\ files = NoFiles
    /\ cache = NoCache
    /\ \E odds \in QuarterPrices, fair_odds \in QuarterPrices :
          call = [op |-> "calculate_ev", odds |-> odds, fair_odds |-> fair_odds]

CalculateEv ==
    /\ pc = "call"
    /\ call.op = "calculate_ev"
    /\ ret' = calculate_ev_float(call.odds, call.fair_odds)
    /\ pc' = "done"
    /\ UNCHANGED <<call, files, cache>>

NextFloat == CalculateEv

SpecFloat == InitFloat /\ [][NextFloat]_vars

(***************************************************************************)
(* Tables (pandas DataFrames): a set of column names and a sequence of     *)
(* rows, each a function from the column names to values.  A column name   *)
(* is kept as the part before its last underscore and the part after it,   *)
(* so that str.endswith('_<suffix>') is a test on the name.                *)
(***************************************************************************)
Col(stem, suffix) == [stem |-> stem, suffix |-> suffix]

\* col.endswith('_' + suffix)
endswith(col, suffix) == col.suffix = suffix

RECURSIVE SumOver(_, _)
\* the sum of row[c] over the columns c of cols
SumOver(row, cols) ==
    IF cols = {} THEN Zero
    ELSE LET c == CHOOSE x \in cols : TRUE
         IN  Add(row[c], SumOver(row, cols \ {c}))

\* DataFrame.mean(axis=1) on one row: NaN cells are skipped
RowMean(row, cols) ==
    LET present == {c \in cols : row[c] # NaN}
    IN  IF present = {} THEN NaN
        ELSE Div(SumOver(row, present), Num(Cardinality(present)))

\* a plausible slip: of several equally frequent labels the largest is taken
RowMode_largest(row, cols) ==
    LET count(v) == Cardinality({c \in cols : row[c] = v})
        labels == {row[c] : c \in cols}
        modes == {v \in labels : \A w \in labels : count(w) <= count(v)}
    IN  CHOOSE v \in modes : \A w \in modes : w <= v

\* DataFrame.mode(axis=1)[0] on one row of class labels: the most frequent
\* label, the smallest one when several are equally frequent
RowMode(row, cols) ==
    LET count(v) == Cardinality({c \in cols : row[c] = v})
        labels == {row[c] : c \in cols}
        modes == {v \in labels : \A w \in labels : count(w) <= count(v)}
    IN  CHOOSE v \in modes : \A w \in modes : v <= w

\* the table with one more column, vals[i] being the cell of row i
WithColumn(df, col, vals) ==
    [columns |-> df.columns \cup {col},
     rows |-> [i \in DOMAIN df.rows |->
                 [c \in df.columns \cup {col} |->
                    IF c = col THEN vals[i] ELSE df.rows[i][c]]]]

(***************************************************************************)
(* FeatureExtractor._extract_market_features (the implied probabilities)   *)
(***************************************************************************)
\* 1 / odds on a column cell: NaN stays NaN
Reciprocal(x) == IF x = NaN THEN NaN ELSE Div(One, x)

ImpliedFrom(df, side) ==
    IF Col(side, "odds") \in df.columns
    THEN WithColumn(df, Col(side \o "_implied", "probability"),
                    [i \in DOMAIN df.rows |-> Reciprocal(df.rows[i][Col(side, "odds")])])
    ELSE df

_extract_market_features(df) ==
    ImpliedFrom(ImpliedFrom(ImpliedFrom(df, "home"), "draw"), "away")

(***************************************************************************)
(* Predictor._make_predictions                                             *)
(***************************************************************************)
\* the name under which the i-th loaded model is keyed
ModelName(i) == ToString(i)

\* a plausible slip: every column counts as a probability column
probability_columns_all(columns) == {col \in columns : col.suffix # "prediction"}

\* the columns averaged into ensemble_probability (line 202)
probability_columns_of(columns) == {col \in columns : endswith(col, "probability")}

\* the columns voted into ensemble_prediction (line 201)
prediction_columns_of(columns) == {col \in columns : endswith(col, "prediction")}

\* a plausible slip: the columns of a model are added although its call failed
AddModel_unguarded(predictions, i, model_info) ==
    LET missing_features == {f \in model_info.feature_names : f \notin predictions.columns}
    IN  IF missing_features # {} THEN predictions
        ELSE WithColumn(
                 WithColumn(predictions, Col(ModelName(i), "prediction"), model_info.y_pred),
                 Col(ModelName(i), "probability"), model_info.y_prob)

\* a plausible slip: a model that lacks a feature predicts all the same
AddModel_imputed(predictions, i, model_info) ==
    IF model_info.raises THEN predictions
    ELSE WithColumn(
             WithColumn(predictions, Col(ModelName(i), "prediction"), model_info.y_pred),
             Col(ModelName(i), "probability"), model_info.y_prob)

\* one iteration of the loop over models.items() (lines 171-198)
AddModel(predictions, i, model_info) ==
    LET missing_features == {f \in model_info.feature_names : f \notin predictions.columns}
    IN  IF missing_features # {} THEN predictions
        ELSE IF model_info.raises THEN predictions
        ELSE WithColumn(
                 WithColumn(predictions, Col(ModelName(i), "prediction"), model_info.y_pred),
                 Col(ModelName(i), "probability"), model_info.y_prob)

RECURSIVE AddModels(_, _, _)
\* the loop over the first k models
AddModels(features, models, k) ==
    IF k = 0 THEN features
    ELSE AddModel(AddModels(features, models, k - 1), k, models[k])

_make_predictions(features, models) ==
    LET predictions == AddModels(features, models, Len(models))
        prediction_columns == prediction_columns_of(predictions.columns)
        probability_columns == probability_columns_of(predictions.columns)
    IN  IF prediction_columns # {}
        THEN LET voted ==
                    WithColumn(predictions, Col("ensemble", "prediction"),
                               [i \in DOMAIN predictions.rows |->
                                   RowMode(predictions.rows[i], prediction_columns)])
             IN  IF probability_columns # {}
                 THEN WithColumn(voted, Col("ensemble", "probability"),
                                 [i \in DOMAIN predictions.rows |->
                                     RowMean(predictions.rows[i], probability_columns)])
                 ELSE voted
        ELSE predictions

(***************************************************************************)
(* Specification SpecPred: one call of _make_predictions on a feature      *)
(* table as extract_features produces it                                   *)
(***************************************************************************)
ScoreDifference == Col("score", "difference")
HomeShots == Col("home", "shots")

\* (home_odds, draw_odds, away_odds) of a row of merged data
OddsRows ==
    {<<NaN, NaN, NaN>>,
     <<Num(2), NaN, Num(2)>>,
     <<Num(4), Num(2), Num(4)>>}

NoOddsRow == [c \in {ScoreDifference} |-> Num(1)]

OddsRow(o) ==
    [c \in {ScoreDifference, Col("home", "odds"), Col("draw", "odds"), Col("away", "odds")} |->
        IF c = ScoreDifference THEN Num(1)
        ELSE IF c.stem = "home" THEN o[1]
        ELSE IF c.stem = "draw" THEN o[2] ELSE o[3]]

\* the processed data without the bookmaker odds columns
PlainData(n) == [columns |-> {ScoreDifference}, rows |-> [i \in 1..n |-> NoOddsRow]]

\* the processed data with the bookmaker odds columns, os[i] the odds of row i
OddsData(n, os) ==
    [columns |-> {ScoreDifference, Col("home", "odds"),
                  Col("draw", "odds"), Col("away", "odds")},
     rows |-> [i \in 1..n |-> OddsRow(os[i])]]

\* (class, positive-class probability) a model can return for one row
ModelOutputs == {<<0, Frac(1, 5)>>, <<1, Frac(3, 5)>>, <<1, Frac(4, 5)>>}

\* the loaded models for a table of n rows: one that lacks a feature, one
\* whose predict call raises, or one that returns a class and a probability
\* for every row
ModelInfos(n) ==
    {[feature_names |-> {ScoreDifference, HomeShots}, raises |-> FALSE,
      y_pred |-> [i \in 1..n |-> 0], y_prob |-> [i \in 1..n |-> NaN]],
     [feature_names |-> {ScoreDifference}, raises |-> TRUE,
      y_pred |-> [i \in 1..n |-> 0], y_prob |-> [i \in 1..n |-> NaN]]}
    \cup {[feature_names |-> {ScoreDifference}, raises |-> FALSE,
           y_pred |-> [i \in 1..n |-> o[i][1]],
           y_prob |-> [i \in 1..n |-> o[i][2]]] : o \in [1..n -> ModelOutputs]}

InitPred ==
    /\ pc = "call"
    /\ ret = NoRet
    /\ files = NoFiles
    /\ cache = NoCache
    /\ \E n \in 1..MaxRows : \E k \in 0..MaxModels : \E ms \in [1..k -> ModelInfos(n)] :
          \/ call = [op |-> "_make_predictions",
                     features |-> _extract_market_features(PlainData(n)),
                     models |-> ms]
          \/ \E os \in [1..n -> OddsRows] :
                call = [op |-> "_make_predictions",
                        features |-> _extract_market_features(OddsData(n, os)),
                        models |-> ms]

MakePredictions ==
    /\ pc = "call"
    /\ call.op = "_make_predictions"
    /\ ret' = _make_predictions(call.features, call.models)
    /\ pc' = "done"
    /\ UNCHANGED <<call, files, cache>>

NextPred == MakePredictions

SpecPred == InitPred /\ [][NextPred]_vars

(***************************************************************************)
(* Predictor.get_value_bets                                                *)
(***************************************************************************)
Status == Col("status", "")
Index == Col("index", "")
EnsemblePrediction == Col("ensemble", "prediction")
EnsembleProbability == Col("ensemble", "probability")
HomeImpliedProbability == Col("home_implied", "probability")
AwayImpliedProbability == Col("away_implied", "probability")
HomeValueBet == Col("home_value", "bet")
AwayValueBet == Col("away_value", "bet")
HomeValue == Col("home", "value")
AwayValue == Col("away", "value")

\* Series arithmetic: a NaN operand gives NaN
PSub(x, y) == IF x = NaN \/ y = NaN THEN NaN ELSE Sub(x, y)

\* an empty DataFrame, and a call that ended in an exception
EmptyFrame == [raised |-> "", columns |-> {}, rows |-> <<>>]
Failed(e) == [raised |-> e, columns |-> {}, rows |-> <<>>]

\* a plausible slip: finished games are not filtered out
is_upcoming_any(row) == TRUE

\* status != 'STATUS_FINAL' (line 265)
is_upcoming(row) == row[Status] # "STATUS_FINAL"

\* the two-sided confidence test (lines 273-274)
is_confident(row, confidence_threshold) ==
    \/ Gt(row[EnsembleProbability], confidence_threshold)
    \/ Lt(row[EnsembleProbability], Sub(One, confidence_threshold))

\* the home-side indicator (lines 278-282)
home_value_bet(row, confidence_threshold) ==
    /\ row[EnsemblePrediction] = 1
    /\ Gt(row[EnsembleProbability], confidence_threshold)
    /\ Lt(row[HomeImpliedProbability], row[EnsembleProbability])

\* a plausible slip: the away side flagged without looking at the market
away_value_bet_no_market(row, confidence_threshold) ==
    /\ row[EnsemblePrediction] = 0
    /\ Lt(row[EnsembleProbability], Sub(One, confidence_threshold))

\* the away-side indicator (lines 284-288)
away_value_bet(row, confidence_threshold) ==
    /\ row[EnsemblePrediction] = 0
    /\ Lt(row[EnsembleProbability], Sub(One, confidence_threshold))
    /\ Lt(row[AwayImpliedProbability], PSub(One, row[EnsembleProbability]))

\* a plausible slip: the operands of the home edge swapped
home_value_swapped(row) == PSub(row[HomeImpliedProbability], row[EnsembleProbability])

\* the value metrics (lines 294-295)
home_value(row) == PSub(row[EnsembleProbability], row[HomeImpliedProbability])
away_value(row) ==
    PSub(PSub(One, row[EnsembleProbability]), row[AwayImpliedProbability])

\* descending order of one sort key with NaN last: x goes strictly before y
KeyBefore(x, y) == IF x = NaN THEN FALSE ELSE IF y = NaN THEN TRUE ELSE Gt(x, y)

\* sort_values(by=['home_value', 'away_value'], ascending=False): row a goes
\* strictly before row b
SortsBefore(a, b) ==
    \/ KeyBefore(a[HomeValue], b[HomeValue])
    \/ /\ a[HomeValue] = b[HomeValue]
       /\ KeyBefore(a[AwayValue], b[AwayValue])

\* r inserted into the sorted sequence after every row it does not precede
Insert(sorted, r) ==
    LET before == {j \in DOMAIN sorted : ~SortsBefore(r, sorted[j])}
        k == Cardinality(before)
    IN  SubSeq(sorted, 1, k) \o <<r>> \o SubSeq(sorted, k + 1, Len(sorted))

RECURSIVE sort_values(_)
\* the stable sort of the rows
sort_values(rows) ==
    IF rows = <<>> THEN <<>>
    ELSE Insert(sort_values(SubSeq(rows, 1, Len(rows) - 1)), rows[Len(rows)])

\* the row with the indicator and value columns added
Extended(row, confidence_threshold) ==
    [c \in DOMAIN row \cup {HomeValueBet, AwayValueBet, HomeValue, AwayValue} |->
        IF c = HomeValueBet THEN home_value_bet(row, confidence_threshold)
        ELSE IF c = AwayValueBet THEN away_value_bet(row, confidence_threshold)
        ELSE IF c = HomeValue THEN home_value(row)
        ELSE IF c = AwayValue THEN away_value(row)
        ELSE row[c]]

get_value_bets(predictions, confidence_threshold) ==
    IF predictions.rows = <<>> \/ predictions.columns = {} THEN EmptyFrame
    ELSE IF EnsembleProbability \notin predictions.columns THEN EmptyFrame
    ELSE IF Status \notin predictions.columns THEN Failed("KeyError")
    ELSE
    LET upcoming_games == SelectSeq(predictions.rows, is_upcoming)
        confident(row) == is_confident(row, confidence_threshold)
        flagged(row) == row[HomeValueBet] \/ row[AwayValueBet]
    IN  IF upcoming_games = <<>> THEN EmptyFrame
        ELSE IF {EnsemblePrediction, HomeImpliedProbability, AwayImpliedProbability}
                    \subseteq predictions.columns
        THEN LET candidates == SelectSeq(upcoming_games, confident)
                 value_bets == SelectSeq(
                     [i \in DOMAIN candidates |->
                         Extended(candidates[i], confidence_threshold)], flagged)
             IN  [raised |-> "",
                  columns |-> predictions.columns
                              \cup {HomeValueBet, AwayValueBet, HomeValue, AwayValue},
                  rows |-> sort_values(value_bets)]
        ELSE Failed("KeyError")

(***************************************************************************)
(* Specification SpecValue: one call of get_value_bets on a predictions    *)
(* table                                                                   *)
(***************************************************************************)
Thresholds == {Frac(7, 10), Frac(4, 5)}

\* the cells of one event
PredictionCells ==
    [status : {"STATUS_SCHEDULED", "STATUS_FINAL"},
     prediction : {0, 1},
     probability : {Frac(1, 5), Frac(3, 4)},
     home_implied : {NaN, Frac(2, 5), Frac(9, 10)},
     away_implied : {Frac(1, 10), Frac(9, 10)}]

AllPredictionColumns ==
    {Index, Status, EnsemblePrediction, EnsembleProbability,
     HomeImpliedProbability, AwayImpliedProbability}

\* the column sets a predictions table can have: everything, no ensemble
\* columns (no model predicted), no odds columns (no bookmaker data), no
\* status column (no ESPN data)
PredictionColumnSets ==
    {AllPredictionColumns,
     AllPredictionColumns \ {EnsemblePrediction, EnsembleProbability},
     AllPredictionColumns \ {HomeImpliedProbability, AwayImpliedProbability},
     AllPredictionColumns \ {Status}}

PredictionRow(columns, i, cells) ==
    [c \in columns |->
        IF c = Index THEN i
        ELSE IF c = Status THEN cells.status
        ELSE IF c = EnsemblePrediction THEN cells.prediction
        ELSE IF c = EnsembleProbability THEN cells.probability
        ELSE IF c = HomeImpliedProbability THEN cells.home_implied
        ELSE cells.away_implied]

\* a predictions table with every column
FullTable(n, cs) ==
    [columns |-> AllPredictionColumns,
     rows |-> [i \in 1..n |-> PredictionRow(AllPredictionColumns, i, cs[i])]]

\* a one-event predictions table over the given columns
OneEventTable(columns) ==
    [columns |-> columns,
     rows |-> <<PredictionRow(columns, 1,
                   [status |-> "STATUS_SCHEDULED", prediction |-> 1,
                    probability |-> Frac(3, 4), home_implied |-> Frac(2, 5),
                    away_implied |-> Frac(9, 10)])>>]

InitValue ==
    /\ pc = "call"
    /\ ret = NoRet
    /\ files = NoFiles
    /\ cache = NoCache
    /\ \E th \in Thresholds :
          \/ \E n \in 0..MaxBets : \E cs \in [1..n -> PredictionCells] :
                call = [op |-> "get_value_bets", predictions |-> FullTable(n, cs),
                        confidence_threshold |-> th]
          \/ \E columns \in PredictionColumnSets \ {AllPredictionColumns} :
                call = [op |-> "get_value_bets", predictions |-> OneEventTable(columns),
                        confidence_threshold |-> th]

GetValueBets ==
    /\ pc = "call"
    /\ call.op = "get_value_bets"
    /\ ret' = get_value_bets(call.predictions, call.confidence_threshold)
    /\ pc' = "done"
    /\ UNCHANGED <<call, files, cache>>

NextValue == GetValueBets

SpecValue == InitValue /\ [][NextValue]_vars

(***************************************************************************)
(* EVCalculator._match_events.  A team name is a sequence of characters.   *)
(***************************************************************************)
\* dict.get(key, default)
GetOr(d, key, default) == IF key \in DOMAIN d THEN d[key] ELSE default

LowerChar(c) ==
    IF c = "L" THEN "l" ELSE IF c = "A" THEN "a"
    ELSE IF c = "C" THEN "c" ELSE IF c = "X" THEN "x" ELSE c

\* str.lower()
lower(name) == [i \in DOMAIN name |-> LowerChar(name[i])]

\* a plausible slip: the empty string is contained in no name
IsSubstring_nonempty(a, b) ==
    a # <<>> /\ \E i \in 0..(Len(b) - Len(a)) : SubSeq(b, i + 1, i + Len(a)) = a

\* a in b on strings
IsSubstring(a, b) ==
    \E i \in 0..(Len(b) - Len(a)) : SubSeq(b, i + 1, i + Len(a)) = a

\* a plausible slip: the away names are not compared
names_match_home_only(pinnacle_home, pinnacle_away, betmgm_home, betmgm_away) ==
    IsSubstring(pinnacle_home, betmgm_home) \/ IsSubstring(betmgm_home, pinnacle_home)

\* the test of lines 130-131
names_match(pinnacle_home, pinnacle_away, betmgm_home, betmgm_away) ==
    /\ IsSubstring(pinnacle_home, betmgm_home) \/ IsSubstring(betmgm_home, pinnacle_home)
    /\ IsSubstring(pinnacle_away, betmgm_away) \/ IsSubstring(betmgm_away, pinnacle_away)

\* the body of the inner loop: does the Pinnacle event match the BetMGM event
EventsMatch(pinnacle_event, betmgm_event) ==
    LET pinnacle_home == lower(GetOr(GetOr(pinnacle_event, "home", <<>>), "name", <<>>))
        pinnacle_away == lower(GetOr(GetOr(pinnacle_event, "away", <<>>), "name", <<>>))
        betmgm_home == lower(GetOr(GetOr(betmgm_event, "home_team", <<>>), "name", <<>>))
        betmgm_away == lower(GetOr(GetOr(betmgm_event, "away_team", <<>>), "name", <<>>))
    IN  names_match(pinnacle_home, pinnacle_away, betmgm_home, betmgm_away)

RECURSIVE pinnacle_events_of(_)
\* the events of all leagues, in order (lines 115-118)
pinnacle_events_of(pinnacle_odds) ==
    IF pinnacle_odds = <<>> THEN <<>>
    ELSE GetOr(Head(pinnacle_odds), "events", <<>>) \o pinnacle_events_of(Tail(pinnacle_odds))

\* a plausible slip: the loop has no break and the last match is kept
PairsFor_last(pinnacle_event, betmgm_odds) ==
    LET hits == {j \in DOMAIN betmgm_odds : EventsMatch(pinnacle_event, betmgm_odds[j])}
    IN  IF hits = {} THEN <<>>
        ELSE LET j == CHOOSE x \in hits : \A y \in hits : x >= y
             IN  <<[pinnacle_event |-> pinnacle_event, betmgm_event |-> betmgm_odds[j]]>>

\* a plausible slip: an event without a match is paired with the first
\* BetMGM event
PairsFor_first(pinnacle_event, betmgm_odds) ==
    LET hits == {j \in DOMAIN betmgm_odds : EventsMatch(pinnacle_event, betmgm_odds[j])}
        j == IF hits = {} THEN 1 ELSE CHOOSE x \in hits : \A y \in hits : x <= y
    IN  IF betmgm_odds = <<>> THEN <<>>
        ELSE <<[pinnacle_event |-> pinnacle_event, betmgm_event |-> betmgm_odds[j]]>>

\* the inner loop with its break: the pairs one Pinnacle event contributes
PairsFor(pinnacle_event, betmgm_odds) ==
    LET hits == {j \in DOMAIN betmgm_odds : EventsMatch(pinnacle_event, betmgm_odds[j])}
    IN  IF hits = {} THEN <<>>
        ELSE LET j == CHOOSE x \in hits : \A y \in hits : x <= y
             IN  <<[pinnacle_event |-> pinnacle_event, betmgm_event |-> betmgm_odds[j]]>>

RECURSIVE MatchLoop(_, _)
\* the outer loop over the Pinnacle events (lines 121-136)
MatchLoop(pinnacle_events, betmgm_odds) ==
    IF pinnacle_events = <<>> THEN <<>>
    ELSE PairsFor(Head(pinnacle_events), betmgm_odds)
         \o MatchLoop(Tail(pinnacle_events), betmgm_odds)

_match_events(pinnacle_odds, betmgm_odds) ==
    MatchLoop(pinnacle_events_of(pinnacle_odds), betmgm_odds)

(***************************************************************************)
(* Specification SpecMatch: one call of _match_events                      *)
(***************************************************************************)
HomeNames == {<<"L">>, <<"a", " ", "l">>, <<"a", "l">>}
AwayNames == {<<"c">>, <<"x">>}

\* the teams of an event as a sportsbook lists them
Teams == [home : HomeNames, away : AwayNames]

\* the i-th event of the Pinnacle feed
PinnacleEvent(i, t) ==
    [id |-> i, home |-> [name |-> t.home], away |-> [name |-> t.away]]

\* stands for an event listed without team names
Nameless == [home |-> <<>>, away |-> <<>>]

\* a Pinnacle event that carries no team names
NamelessPinnacleEvent(i) == [id |-> i]

\* the i-th event of the BetMGM feed
BetmgmEvent(i, t) ==
    [id |-> i, home_team |-> [name |-> t.home], away_team |-> [name |-> t.away]]

\* the Pinnacle response: the events split over two leagues after the k-th
Leagues(events, k) ==
    <<[events |-> SubSeq(events, 1, k)], [events |-> SubSeq(events, k + 1, Len(events))]>>

InitMatch ==
    /\ pc = "call"
    /\ ret = NoRet
    /\ files = NoFiles
    /\ cache = NoCache
    /\ \E n \in 0..MaxEvents, m \in 0..MaxEvents :
       \E ts \in [1..n -> Teams \cup {Nameless}], us \in [1..m -> Teams] :
       \E k \in 0..n :
          call = [op |-> "_match_events",
                  pinnacle_odds |->
                      Leagues([i \in 1..n |->
                                  IF ts[i] = Nameless THEN NamelessPinnacleEvent(i)
                                  ELSE PinnacleEvent(i, ts[i])], k),
                  betmgm_odds |-> [j \in 1..m |-> BetmgmEvent(j, us[j])]]

MatchEvents ==
    /\ pc = "call"
    /\ call.op = "_match_events"
    /\ ret' = _match_events(call.pinnacle_odds, call.betmgm_odds)
    /\ pc' = "done"
    /\ UNCHANGED <<call, files, cache>>

NextMatch == MatchEvents

SpecMatch == InitMatch /\ [][NextMatch]_vars

(***************************************************************************)
(* EVCalculator._extract_pinnacle_moneyline and                            *)
(* BetMGMScraper.extract_moneyline_odds.  A participant type or a          *)
(* selection name is a sequence of characters; a JSON response is a record *)
(* whose field json tells a dict from a list.                              *)
(***************************************************************************)
\* float(x) if x else None
FloatOrNone(x) == IF Truthy(x) THEN x ELSE None

\* the dict d after d[key] = value
Put(d, key, value) ==
    [k \in DOMAIN d \cup {key} |-> IF k = key THEN value ELSE d[k]]

HomeWord == <<"h", "o", "m", "e">>
AwayWord == <<"a", "w", "a", "y">>
DrawWord == <<"d", "r", "a", "w">>

RECURSIVE PinnaclePrices(_, _)
\* the loop over the prices of a moneyline market (lines 162-171)
PinnaclePrices(prices, odds) ==
    IF prices = <<>> THEN odds
    ELSE LET price == Head(prices)
             participant_type == lower(GetOr(price, "participantType", <<>>))
             decimal_odds == Get(price, "decimal")
             key == IF participant_type = HomeWord THEN "home_odds"
                    ELSE IF participant_type = AwayWord THEN "away_odds"
                    ELSE IF participant_type = DrawWord THEN "draw_odds" ELSE ""
         IN  PinnaclePrices(Tail(prices),
                 IF key = "" THEN odds ELSE Put(odds, key, FloatOrNone(decimal_odds)))

RECURSIVE PinnacleMarkets(_, _)
\* the loop over the markets of an event (lines 158-171)
PinnacleMarkets(markets, odds) ==
    IF markets = <<>> THEN odds
    ELSE PinnacleMarkets(Tail(markets),
             IF GetOr(Head(markets), "key", "") = "moneyline"
             THEN PinnaclePrices(GetOr(Head(markets), "prices", <<>>), odds)
             ELSE odds)

_extract_pinnacle_moneyline(event) ==
    PinnacleMarkets(GetOr(event, "markets", <<>>), <<>>)

RECURSIVE BetmgmSelections(_, _)
\* the loop over the selections of a moneyline market (lines 223-232)
BetmgmSelections(selections, odds) ==
    IF selections = <<>> THEN odds
    ELSE LET selection == Head(selections)
             name == lower(GetOr(selection, "name", <<>>))
             price == Get(GetOr(selection, "price", <<>>), "decimal")
             key == IF IsSubstring(HomeWord, name) \/ name = <<"1">> THEN "home_odds"
                    ELSE IF IsSubstring(AwayWord, name) \/ name = <<"2">> THEN "away_odds"
                    ELSE IF IsSubstring(DrawWord, name) \/ name = <<"x">> THEN "draw_odds"
                    ELSE ""
         IN  BetmgmSelections(Tail(selections),
                 IF key = "" THEN odds ELSE Put(odds, key, FloatOrNone(price)))

RECURSIVE BetmgmMarkets(_, _)
\* the loop over the markets of an event (lines 219-232)
BetmgmMarkets(markets, odds) ==
    IF markets = <<>> THEN odds
    ELSE BetmgmMarkets(Tail(markets),
             IF GetOr(Head(markets), "key", "") = "moneyline"
             THEN BetmgmSelections(GetOr(Head(markets), "selections", <<>>), odds)
             ELSE odds)

\* event_data is a dict (a list has no get: AttributeError, see BetOf)
extract_moneyline_odds(event_data) ==
    BetmgmMarkets(GetOr(event_data, "markets", <<>>), <<>>)

(***************************************************************************)
(* EVCalculator.find_ev_bets and _save_ev_bets.  The responses of the two  *)
(* sportsbooks are inputs of the call: pinnacle_odds and betmgm_odds are   *)
(* what the two fetch_odds return, event_odds[id] is what                  *)
(* fetch_event_odds(id) returns, now is the clock in seconds.  The output  *)
(* directory is a set of files, each a name and a content.                 *)
(***************************************************************************)
\* the EVBet with the team names of the BetMGM event and the ids of its two
\* events (lines 234-235 and 250-251)
WithEventIds(ev_bet, pinnacle_event, betmgm_event) ==
    [k \in DOMAIN ev_bet \cup {"home_team", "away_team",
                                "pinnacle_event_id", "betmgm_event_id"} |->
        IF k = "home_team" THEN GetOr(GetOr(betmgm_event, "home_team", <<>>), "name", None)
        ELSE IF k = "away_team" THEN GetOr(GetOr(betmgm_event, "away_team", <<>>), "name", None)
        ELSE IF k = "pinnacle_event_id" THEN pinnacle_event.id
        ELSE IF k = "betmgm_event_id" THEN betmgm_event.id
        ELSE ev_bet[k]]

\* one iteration of the loop over the matched events (lines 70-91): the
\* EVBet, None, or the exception raised
BetOf(match, event_odds) ==
    LET pinnacle_moneyline == _extract_pinnacle_moneyline(match.pinnacle_event)
        betmgm_event_odds == event_odds[match.betmgm_event.id]
    IN  WithEventIds(
            IF betmgm_event_odds.json = "list" THEN NoBet("raise", "AttributeError")
            ELSE _calculate_ev_bet(pinnacle_moneyline,
                                   extract_moneyline_odds(betmgm_event_odds)),
            match.pinnacle_event, match.betmgm_event)

\* a plausible slip: a bet exactly at the threshold is left out
is_reported_above(ev_bet, min_ev) == ev_bet.kind = "EVBet" /\ Gt(ev_bet.max_ev, min_ev)

\* the test of line 93
is_reported(ev_bet, min_ev) == ev_bet.kind = "EVBet" /\ Ge(ev_bet.max_ev, min_ev)

\* the name of the file written at time now (lines 271-273)
FileName(sport, league, now) ==
    [sport |-> sport, league |-> IF league = "" THEN "all" ELSE league, timestamp |-> now]

\* open(filepath, 'w') and json.dump: a file of that name is replaced
WriteFile(dir, name, content) ==
    {f \in dir : f.name # name} \cup {[name |-> name, content |-> content]}

\* a plausible slip: a file is written although there is no bet
_save_ev_bets_always(dir, ev_bets, sport, league, now) ==
    WriteFile(dir, FileName(sport, league, now), ev_bets)

_save_ev_bets(dir, ev_bets, sport, league, now) ==
    IF ev_bets = <<>> THEN dir
    ELSE WriteFile(dir, FileName(sport, league, now), ev_bets)

\* the value returned (or the exception raised) and the output directory
\* after the call
find_ev_bets(c, dir) ==
    LET matched_events == _match_events(c.pinnacle_odds, c.betmgm_odds)
        reported(ev_bet) == is_reported(ev_bet, c.min_ev)
        \* what follows the loop, given what its iterations computed
        after(computed) ==
            LET raising == {i \in DOMAIN computed : computed[i].kind = "raise"}
                ev_bets == SelectSeq(computed, reported)
            IN  IF raising # {}
                THEN [raised |-> computed[CHOOSE i \in raising :
                                              \A j \in raising : i <= j].raised,
                      ev_bets |-> <<>>, files |-> dir]
                ELSE [raised |-> "", ev_bets |-> ev_bets,
                      files |-> _save_ev_bets(dir, ev_bets, c.sport, c.league, c.now)]
    IN  CHOOSE out \in
            {after(computed) :
                computed \in {[i \in DOMAIN matched_events |->
                                  BetOf(matched_events[i], c.event_odds)]}} : TRUE

(***************************************************************************)
(* Specification SpecFind: one call of find_ev_bets                        *)
(***************************************************************************)
\* the fixtures listed by the two sportsbooks
Fixtures ==
    {[home |-> <<"L">>, away |-> <<"c">>], [home |-> <<"a", "l">>, away |-> <<"x">>]}

PinnaclePrice(side, decimal) == [participantType |-> side, decimal |-> decimal]

\* the markets of a Pinnacle event: none, a two-way and a three-way
\* moneyline, and a moneyline whose away price is missing
PinnacleMarketLists ==
    {<<>>,
     <<[key |-> "spread", prices |-> <<PinnaclePrice(HomeWord, Num(3))>>],
       [key |-> "moneyline",
        prices |-> <<PinnaclePrice(HomeWord, Num(2)), PinnaclePrice(AwayWord, Num(2))>>]>>,
     <<[key |-> "moneyline",
        prices |-> <<PinnaclePrice(HomeWord, Num(4)), PinnaclePrice(AwayWord, Num(4)),
                     PinnaclePrice(DrawWord, Num(2))>>]>>,
     <<[key |-> "moneyline",
        prices |-> <<PinnaclePrice(HomeWord, Num(2)), PinnaclePrice(AwayWord, None)>>]>>}

Selection(name, decimal) == [name |-> name, price |-> [decimal |-> decimal]]

\* what fetch_event_odds returns: the markets of the event, or the empty
\* list when the request failed and there is no cache
EventOddsResponses ==
    {[json |-> "list"],
     [json |-> "dict",
      markets |-> <<[key |-> "moneyline",
                     selections |-> <<Selection(HomeWord, Num(2)),
                                      Selection(AwayWord, Num(2))>>]>>],
     [json |-> "dict",
      markets |-> <<[key |-> "moneyline",
                     selections |-> <<Selection(<<"1">>, Num(3)),
                                      Selection(<<"2">>, Num(2)),
                                      Selection(<<"x">>, Num(4))>>]>>]}

\* the thresholds: the default 2.0 and 50.0
MinEvs == {Num(2), Num(50)}

\* the BetMGM listings of m fixtures, each fixture listed once
ListedOnce(m) ==
    {us \in [1..m -> Fixtures] : \A i, j \in 1..m : us[i] = us[j] => i = j}

InitFind ==
    /\ pc = "call"
    /\ ret = NoRet
    /\ files = NoFiles
    /\ cache = NoCache
    /\ \E n \in 0..MaxEvents, m \in 0..Cardinality(Fixtures) :
       \E ts \in [1..n -> Fixtures], ms \in [1..n -> PinnacleMarketLists],
          us \in ListedOnce(m), rs \in [1..m -> EventOddsResponses],
          min_ev \in MinEvs :
          call = [op |-> "find_ev_bets", sport |-> "basketball", league |-> "nba",
                  min_ev |-> min_ev, now |-> 1,
                  pinnacle_odds |->
                      <<[events |-> [i \in 1..n |->
                            [id |-> i, home |-> [name |-> ts[i].home],
                             away |-> [name |-> ts[i].away], markets |-> ms[i]]]]>>,
                  betmgm_odds |-> [j \in 1..m |-> BetmgmEvent(j, us[j])],
                  event_odds |-> rs]

FindEvBets ==
    /\ pc = "call"
    /\ call.op = "find_ev_bets"
    /\ \E out \in {find_ev_bets(call, files)} :
          /\ ret' = [raised |-> out.raised, ev_bets |-> out.ev_bets]
          /\ files' = out.files
    /\ pc' = "done"
    /\ UNCHANGED <<call, cache>>

NextFind == FindEvBets

SpecFind == InitFind /\ [][NextFind]_vars

(***************************************************************************)
(* EVCalculator.get_ev_features and DataProcessor._add_ev_data             *)
(***************************************************************************)
\* the place of a word of a file name in the order of str
WordRank == [all |-> 1, basketball |-> 2, nba |-> 3]

\* file name a < file name b as strings: sport, league, timestamp
NameLess(a, b) ==
    \/ WordRank[a.sport] < WordRank[b.sport]
    \/ a.sport = b.sport /\ WordRank[a.league] < WordRank[b.league]
    \/ a.sport = b.sport /\ a.league = b.league /\ a.timestamp < b.timestamp

RECURSIVE sorted_reverse(_)
\* sorted(ev_files, reverse=True) of line 344
sorted_reverse(dir) ==
    IF dir = {} THEN <<>>
    ELSE LET first == CHOOSE f \in dir : \A g \in dir : g = f \/ NameLess(g.name, f.name)
         IN  <<first>> \o sorted_reverse(dir \ {first})

RECURSIVE _find_matching_ev_bets(_, _, _)
\* the bets of the files, in the order of files, whose team names match
\* (lines 344-358)
_find_matching_ev_bets(ev_files, home_team, away_team) ==
    IF ev_files = <<>> THEN <<>>
    ELSE LET matches(bet) ==
                 names_match(home_team, away_team, lower(bet.home_team), lower(bet.away_team))
         IN  SelectSeq(Head(ev_files).content, matches)
                 \o _find_matching_ev_bets(Tail(ev_files), home_team, away_team)

\* get_ev_features returned {}
NoFeatures == [raised |-> "", features |-> <<>>]

\* ev_bet.get('draw_ev', 0) > 0 of line 322: the key is there, and None > 0
\* raises
draw_value_of(ev_bet) ==
    IF ev_bet.draw_ev = None THEN [raised |-> "TypeError", value |-> FALSE]
    ELSE [raised |-> "", value |-> Gt(ev_bet.draw_ev, Zero)]

\* the keys copied from the bet (lines 306-319)
CopiedKeys ==
    {"home_ev", "away_ev", "draw_ev", "best_bet", "max_ev",
     "pinnacle_home_odds", "pinnacle_away_odds", "pinnacle_draw_odds",
     "betmgm_home_odds", "betmgm_away_odds", "betmgm_draw_odds",
     "fair_home_odds", "fair_away_odds", "fair_draw_odds"}

get_ev_features(dir, event) ==
    LET home_team == lower(event.home_team_name)
        away_team == lower(event.away_team_name)
        ev_bets == _find_matching_ev_bets(sorted_reverse(dir), home_team, away_team)
    IN  IF ev_bets = <<>> THEN NoFeatures
        ELSE IF draw_value_of(ev_bets[1]).raised # ""
        THEN [raised |-> draw_value_of(ev_bets[1]).raised, features |-> <<>>]
        ELSE [raised |-> "",
              features |->
                  [k \in CopiedKeys \cup {"home_value", "away_value", "draw_value"} |->
                      IF k = "home_value" THEN Gt(ev_bets[1].home_ev, Zero)
                      ELSE IF k = "away_value" THEN Gt(ev_bets[1].away_ev, Zero)
                      ELSE IF k = "draw_value" THEN draw_value_of(ev_bets[1]).value
                      ELSE ev_bets[1][k]]]

\* a plausible slip: the bets are searched before the rows are read
_add_ev_data_late(c, dir) ==
    LET found == find_ev_bets(c, dir)
        ev_features == [i \in DOMAIN c.rows |-> get_ev_features(found.files, c.rows[i])]
        raising == {i \in DOMAIN c.rows : ev_features[i].raised # ""}
    IN  IF raising # {}
        THEN [raised |-> ev_features[CHOOSE i \in raising : TRUE].raised,
              rows |-> <<>>, files |-> found.files]
        ELSE [raised |-> "",
              rows |-> [i \in DOMAIN c.rows |-> ev_features[i].features],
              files |-> found.files]

\* the features attached to the rows, then the search for new bets, whose
\* exceptions are logged (lines 551-571)
_add_ev_data(c, dir) ==
    LET ev_features == [i \in DOMAIN c.rows |-> get_ev_features(dir, c.rows[i])]
        raising == {i \in DOMAIN c.rows : ev_features[i].raised # ""}
    IN  IF raising # {}
        THEN [raised |-> ev_features[CHOOSE i \in raising : \A j \in raising : i <= j].raised,
              rows |-> <<>>, files |-> dir]
        ELSE [raised |-> "",
              rows |-> [i \in DOMAIN c.rows |-> ev_features[i].features],
              files |-> find_ev_bets(c, dir).files]

(***************************************************************************)
(* Specification SpecStore: calls of find_ev_bets, get_ev_features and     *)
(* _add_ev_data on one output directory, one call per second               *)
(***************************************************************************)
\* the row of an event in the merged table
RowOf(t) == [home_team_name |-> t.home, away_team_name |-> t.away]

\* the arguments of find_ev_bets and what the scrapers answer for one
\* listed fixture
FindCall(op, now, league, t, markets, response) ==
    [op |-> op, sport |-> "basketball", league |-> league, min_ev |-> Num(2), now |-> now,
     pinnacle_odds |->
         <<[events |-> <<[id |-> 1, home |-> [name |-> t.home],
                          away |-> [name |-> t.away], markets |-> markets]>>]>>,
     betmgm_odds |-> <<BetmgmEvent(1, t)>>,
     event_odds |-> <<response>>]

\* the calls that can be made at time now
StoreCalls(now) ==
    {[op |-> "get_ev_features", now |-> now, event |-> RowOf(t)] : t \in Fixtures}
    \cup {FindCall("find_ev_bets", now, league, t, markets, response) :
            league \in {"nba", ""}, t \in Fixtures,
            markets \in PinnacleMarketLists, response \in EventOddsResponses}
    \cup UNION {{[k \in DOMAIN c \cup {"rows"} |-> IF k = "rows" THEN <<RowOf(t)>> ELSE c[k]] :
                    c \in {FindCall("_add_ev_data", now, "nba", u, markets, response) :
                              u \in Fixtures, markets \in PinnacleMarketLists,
                              response \in EventOddsResponses}} :
                t \in Fixtures}

InitStore ==
    /\ pc = "call"
    /\ ret = NoRet
    /\ files = NoFiles
    /\ cache = NoCache
    /\ call \in StoreCalls(1)

\* the next call is made a second or more after the last one
NewCall ==
    /\ pc = "done"
    /\ call.op \in {"find_ev_bets", "get_ev_features", "_add_ev_data"}
    /\ call.now < MaxTime
    /\ call' \in StoreCalls(call.now + 1)
    /\ pc' = "call"
    /\ ret' = NoRet
    /\ UNCHANGED <<files, cache>>

StoreFindEvBets ==
    /\ pc = "call"
    /\ call.op = "find_ev_bets"
    /\ \E out \in {find_ev_bets(call, files)} :
          /\ ret' = [raised |-> out.raised, ev_bets |-> out.ev_bets]
          /\ files' = out.files
    /\ pc' = "done"
    /\ UNCHANGED <<call, cache>>

GetEvFeatures ==
    /\ pc = "call"
    /\ call.op = "get_ev_features"
    /\ ret' = get_ev_features(files, call.event)
    /\ pc' = "done"
    /\ UNCHANGED <<call, files, cache>>

AddEvData ==
    /\ pc = "call"
    /\ call.op = "_add_ev_data"
    /\ \E out \in {_add_ev_data(call, files)} :
          /\ ret' = [raised |-> out.raised, rows |-> out.rows]
          /\ files' = out.files
    /\ pc' = "done"
    /\ UNCHANGED <<call, cache>>

NextStore == NewCall \/ StoreFindEvBets \/ GetEvFeatures \/ AddEvData

SpecStore == InitStore /\ [][NextStore]_vars

(***************************************************************************)
(* PinnacleScraper.fetch_odds, BetMGMScraper.fetch_odds and                *)
(* BetMGMScraper.fetch_event_odds.  The answer of the network is an input  *)
(* of the call: a requests exception or a JSON object.  A cache file has   *)
(* the data written to it, whether it is younger than 15 minutes, and (as  *)
(* history, not on disk) the value that the call which wrote it returned.  *)
(* A returned JSON list is [json |-> "list", items |-> ...] and a JSON     *)
(* object is a record with json |-> "dict".                                *)
(***************************************************************************)
JsonList(items) == [json |-> "list", items |-> items]

\* f"{sport}_{league or 'all'}" (line 73)
cache_key(sport, league) == <<sport, IF league = "" THEN "all" ELSE league>>

\* the three except clauses (lines 121-129): every requests exception
RequestExceptions == {"ConnectionError", "Timeout", "HTTPError"}

\* _load_cached_data without the test of line 141
_load_cached_data_unguarded(dir, cache_file) ==
    IF cache_file \in DOMAIN dir
    THEN [raised |-> "", value |-> dir[cache_file].data]
    ELSE [raised |-> "FileNotFoundError", value |-> None]

_load_cached_data(dir, cache_file) ==
    IF cache_file \in DOMAIN dir
    THEN [raised |-> "", value |-> dir[cache_file].data]
    ELSE [raised |-> "", value |-> JsonList(<<>>)]

\* what a fetch returns of a live answer: data.get('leagues', []) (line 119
\* of pinnacle_scraper.py), data.get('events', []) (line 119 of
\* betmgm_scraper.py) or, for key "", data (line 191)
ReturnedOf(key, data) ==
    IF key = "" THEN data ELSE JsonList(GetOr(data, key, <<>>))

\* the body shared by the three fetches: the fresh cache file, else the
\* request, its answer written to the cache file, else _load_cached_data
Fetch(dir, cache_file, response, key) ==
    IF cache_file \in DOMAIN dir /\ dir[cache_file].fresh
    THEN [raised |-> "", value |-> dir[cache_file].data, cache |-> dir]
    ELSE IF response.kind \in RequestExceptions
    THEN LET cached == _load_cached_data(dir, cache_file)
         IN  [raised |-> cached.raised, value |-> cached.value, cache |-> dir]
    ELSE LET data == response.data
             entry == [data |-> data, fresh |-> TRUE, returned |-> ReturnedOf(key, data)]
         IN  [raised |-> "", value |-> ReturnedOf(key, data),
              cache |-> [f \in DOMAIN dir \cup {cache_file} |->
                            IF f = cache_file THEN entry ELSE dir[f]]]

pinnacle_cache_file(c) == <<"pinnacle_odds">> \o cache_key(c.sport, c.league)
betmgm_cache_file(c) == <<"betmgm_odds">> \o cache_key(c.sport, c.league)
event_cache_file(c) == <<"betmgm_event", c.event_id>>

pinnacle_fetch_odds(c, dir) == Fetch(dir, pinnacle_cache_file(c), c.response, "leagues")
betmgm_fetch_odds(c, dir) == Fetch(dir, betmgm_cache_file(c), c.response, "events")
fetch_event_odds(c, dir) == Fetch(dir, event_cache_file(c), c.response, "")

(***************************************************************************)
(* Specification SpecFetch: calls of the three fetches on the cache        *)
(* directories, with time passing between them                             *)
(***************************************************************************)
\* the answers of Pinnacle: a failed request, an object with one league of
\* one event, and an object without leagues
PinnacleResponses ==
    [kind : RequestExceptions]
    \cup {[kind |-> "ok", data |-> d] :
            d \in {[json |-> "dict"],
                   [json |-> "dict",
                    leagues |-> <<[events |-> <<[id |-> "p1",
                                                 home |-> [name |-> <<"L">>],
                                                 away |-> [name |-> <<"c">>]]>>]>>]}}

\* the answers of BetMGM to the request of its events
BetmgmResponses ==
    [kind : RequestExceptions]
    \cup {[kind |-> "ok", data |-> d] :
            d \in {[json |-> "dict"],
                   [json |-> "dict",
                    events |-> <<[id |-> "b1",
                                  home_team |-> [name |-> <<"L">>],
                                  away_team |-> [name |-> <<"c">>]]>>]}}

\* the answers of BetMGM to the request of the markets of an event
EventResponses ==
    [kind : RequestExceptions]
    \cup {[kind |-> "ok", data |-> d] : d \in EventOddsResponses \ {[json |-> "list"]}}

FetchCalls ==
    {[op |-> "pinnacle.fetch_odds", sport |-> "basketball", league |-> l, response |-> r] :
        l \in {"nba", ""}, r \in PinnacleResponses}
    \cup {[op |-> "betmgm.fetch_odds", sport |-> "basketball", league |-> l, response |-> r] :
        l \in {"nba"}, r \in BetmgmResponses}
    \cup {[op |-> "betmgm.fetch_event_odds", event_id |-> "b1", response |-> r] :
        r \in EventResponses}

InitFetch ==
    /\ pc = "call"
    /\ ret = NoRet
    /\ files = NoFiles
    /\ cache = NoCache
    /\ call \in FetchCalls

\* the next call of a scraper
NewFetch ==
    /\ pc = "done"
    /\ call.op \in {"pinnacle.fetch_odds", "betmgm.fetch_odds", "betmgm.fetch_event_odds"}
    /\ call' \in FetchCalls
    /\ pc' = "call"
    /\ ret' = NoRet
    /\ UNCHANGED <<files, cache>>

\* fifteen minutes pass between two calls: every cache file is old
CacheAges ==
    /\ pc = "done"
    /\ call.op \in {"pinnacle.fetch_odds", "betmgm.fetch_odds", "betmgm.fetch_event_odds"}
    /\ \E f \in DOMAIN cache : cache[f].fresh
    /\ cache' = [f \in DOMAIN cache |-> [cache[f] EXCEPT !.fresh = FALSE]]
    /\ UNCHANGED <<pc, call, ret, files>>

PinnacleFetchOdds ==
    /\ pc = "call"
    /\ call.op = "pinnacle.fetch_odds"
    /\ \E out \in {pinnacle_fetch_odds(call, cache)} :
          /\ ret' = [raised |-> out.raised, value |-> out.value]
          /\ cache' = out.cache
    /\ pc' = "done"
    /\ UNCHANGED <<call, files>>

BetmgmFetchOdds ==
    /\ pc = "call"
    /\ call.op = "betmgm.fetch_odds"
    /\ \E out \in {betmgm_fetch_odds(call, cache)} :
          /\ ret' = [raised |-> out.raised, value |-> out.value]
          /\ cache' = out.cache
    /\ pc' = "done"
    /\ UNCHANGED <<call, files>>

FetchEventOdds ==
    /\ pc = "call"
    /\ call.op = "betmgm.fetch_event_odds"
    /\ \E out \in {fetch_event_odds(call, cache)} :
          /\ ret' = [raised |-> out.raised, value |-> out.value]
          /\ cache' = out.cache
    /\ pc' = "done"
    /\ UNCHANGED <<call, files>>

NextFetch == NewFetch \/ CacheAges \/ PinnacleFetchOdds \/ BetmgmFetchOdds \/ FetchEventOdds

SpecFetch == InitFetch /\ [][NextFetch]_vars

(***************************************************************************)
(* MLSportsEdge.run_pipeline.  The ESPN scoreboard is the input data; the  *)
(* answer of the ESPN API to each request is an input of the step that     *)
(* makes it.  A scoreboard event is kept as the fields that                *)
(* _process_espn_event copies of it; the Bet365 scraper has no events, so  *)
(* that _merge_data returns the ESPN table.                                *)
(***************************************************************************)
EventId == Col("event", "id")
HomeTeamScore == Col("home_team", "score")
AwayTeamScore == Col("away_team", "score")

\* pd.DataFrame()
NoData == [columns |-> {}, rows |-> <<>>]

\* ESPNApiClient._make_request: the cache file younger than an hour, else
\* the request, its answer written to the cache file, else the old cache
\* file, else {}
_make_request(dir, cache_file, response) ==
    IF cache_file \in DOMAIN dir /\ dir[cache_file].fresh
    THEN [value |-> dir[cache_file].data, cache |-> dir]
    ELSE IF response.kind = "RequestException"
    THEN [value |-> IF cache_file \in DOMAIN dir THEN dir[cache_file].data
                    ELSE [json |-> "dict"],
          cache |-> dir]
    ELSE [value |-> response.data,
          cache |-> [f \in DOMAIN dir \cup {cache_file} |->
                        IF f = cache_file THEN [data |-> response.data, fresh |-> TRUE]
                        ELSE dir[f]]]

\* the cache file of get_scoreboard(sport, league) on one day
scoreboard_cache_file(sport, league) == <<"scoreboard", sport, league>>

\* the row of an event (lines 175-191)
_process_espn_event(event) ==
    [c \in {EventId, Status, HomeTeamScore, AwayTeamScore} |->
        IF c = EventId THEN event.id
        ELSE IF c = Status THEN event.status
        ELSE IF c = HomeTeamScore THEN event.home_score ELSE event.away_score]

\* DataProcessor._get_espn_data on a scoreboard
_get_espn_data(scoreboard) ==
    LET events == GetOr(scoreboard, "events", <<>>)
    IN  IF events = <<>> THEN NoData
        ELSE [columns |-> {EventId, Status, HomeTeamScore, AwayTeamScore},
              rows |-> [i \in DOMAIN events |-> _process_espn_event(events[i])]]

\* DataProcessor.process_data: the table read now, and the cache after it
process_data(c, dir, response) ==
    LET read == _make_request(dir, scoreboard_cache_file(c.sport, c.league), response)
    IN  [data |-> _get_espn_data(read.value), cache |-> read.cache]

\* FeatureExtractor._extract_common_features: the score difference
_extract_common_features(df) ==
    WithColumn(df, ScoreDifference,
               [i \in DOMAIN df.rows |->
                   Sub(df.rows[i][HomeTeamScore], df.rows[i][AwayTeamScore])])

\* FeatureExtractor.extract_features
extract_features(df) ==
    IF df.rows = <<>> THEN NoData
    ELSE _extract_market_features(_extract_common_features(df))

\* what a loaded model answers on the rows of a feature table
Applied(model, features) ==
    [feature_names |-> model.feature_names,
     raises |-> FALSE,
     y_pred |-> [i \in DOMAIN features.rows |->
                    IF Gt(features.rows[i][ScoreDifference], Zero) THEN 1 ELSE 0],
     y_prob |-> [i \in DOMAIN features.rows |->
                    IF Gt(features.rows[i][ScoreDifference], Zero)
                    THEN model.ahead ELSE model.level]]

\* the predictions of the loaded models on a table of processed data
\* (predictor.py lines 70-84)
predictions_from(current_data, models) ==
    IF current_data.rows = <<>> THEN NoData
    ELSE LET features == extract_features(current_data)
         IN  IF models = <<>> THEN NoData
             ELSE _make_predictions(features,
                      [i \in DOMAIN models |-> Applied(models[i], features)])

\* Predictor.predict: the data is read again (line 64)
predict(c, dir, response) ==
    LET current == process_data(c, dir, response)
    IN  [predictions |-> predictions_from(current.data, c.models),
         cache |-> current.cache]

\* config.get('confidence_threshold', 0.7)
confidence_threshold == Frac(7, 10)

(***************************************************************************)
(* Specification SpecPipeline: runs of run_pipeline, step by step, with an *)
(* hour passing between two runs                                           *)
(***************************************************************************)
ScoreboardEvent(id, status, home_score, away_score) ==
    [id |-> id, status |-> status, home_score |-> home_score, away_score |-> away_score]

\* the answers of the ESPN API: a failed request, a scoreboard without
\* events, a game before its start, and the same game at halftime
EspnResponses ==
    {[kind |-> "RequestException"]}
    \cup {[kind |-> "ok", data |-> d] :
            d \in {[json |-> "dict"],
                   [json |-> "dict",
                    events |-> <<ScoreboardEvent("g1", "STATUS_SCHEDULED", Zero, Zero)>>],
                   [json |-> "dict",
                    events |-> <<ScoreboardEvent("g1", "STATUS_HALFTIME", Num(2), Num(1))>>]}}

\* the models found by _load_models: none, one or two trained on the score
\* difference
LoadedModels ==
    {<<>>,
     <<[feature_names |-> {ScoreDifference}, ahead |-> Frac(4, 5), level |-> Frac(1, 2)]>>,
     <<[feature_names |-> {ScoreDifference}, ahead |-> Frac(4, 5), level |-> Frac(1, 2)],
       [feature_names |-> {ScoreDifference}, ahead |-> Frac(3, 5), level |-> Frac(2, 5)]>>}

PipelineCalls ==
    {[op |-> "run_pipeline", sport |-> "basketball", league |-> l, models |-> ms] :
        l \in {"nba", "wnba"}, ms \in LoadedModels}

NotReached == [reached |-> FALSE]

InitPipeline ==
    /\ pc = "step 1"
    /\ ret = NoRet
    /\ files = NoFiles
    /\ cache = NoCache
    /\ call \in PipelineCalls

\* the next run of the pipeline
NewRun ==
    /\ pc = "done"
    /\ call.op = "run_pipeline"
    /\ call' \in PipelineCalls
    /\ pc' = "step 1"
    /\ ret' = NoRet
    /\ UNCHANGED <<files, cache>>

\* an hour passes between two runs: every cache file is old
HourPasses ==
    /\ pc = "done"
    /\ call.op = "run_pipeline"
    /\ \E f \in DOMAIN cache : cache[f].fresh
    /\ cache' = [f \in DOMAIN cache |-> [cache[f] EXCEPT !.fresh = FALSE]]
    /\ UNCHANGED <<pc, call, ret, files>>

\* step 1 (lines 118-128)
Step1ProcessData ==
    /\ pc = "step 1"
    /\ \E response \in EspnResponses :
       \E out \in {process_data(call, cache, response)} :
          /\ ret' = [data |-> out.data, features |-> NotReached,
                     predictions |-> NotReached, value_bets |-> NotReached]
          /\ cache' = out.cache
          /\ pc' = IF out.data.rows = <<>> THEN "done" ELSE "step 2"
    /\ UNCHANGED <<call, files>>

\* step 2 (lines 130-140)
Step2ExtractFeatures ==
    /\ pc = "step 2"
    /\ \E features \in {extract_features(ret.data)} :
          /\ ret' = [ret EXCEPT !.features = features]
          /\ pc' = IF features.rows = <<>> THEN "done" ELSE "step 4"
    /\ UNCHANGED <<call, files, cache>>

\* step 4 (lines 151-161)
Step4Predict ==
    /\ pc = "step 4"
    /\ \E response \in EspnResponses :
       \E out \in {predict(call, cache, response)} :
          /\ ret' = [ret EXCEPT !.predictions = out.predictions]
          /\ cache' = out.cache
          /\ pc' = IF out.predictions.rows = <<>> THEN "done" ELSE "step 5"
    /\ UNCHANGED <<call, files>>

\* step 5 (lines 163-170)
Step5GetValueBets ==
    /\ pc = "step 5"
    /\ ret' = [ret EXCEPT !.value_bets =
                  get_value_bets(ret.predictions, confidence_threshold)]
    /\ pc' = "done"
    /\ UNCHANGED <<call, files, cache>>

NextPipeline ==
    \/ NewRun \/ HourPasses \/ Step1ProcessData \/ Step2ExtractFeatures
    \/ Step4Predict \/ Step5GetValueBets

SpecPipeline == InitPipeline /\ [][NextPipeline]_vars

(***************************************************************************)
(* Properties of devig_odds and _calculate_ev_bet (SpecEV)                 *)
(***************************************************************************)
\* a valid decimal price: a finite number > 1.0
ValidPrice(x) == x # None /\ IsNum(x) /\ Gt(x, One)

DevigDone == pc = "done" /\ call.op = "devig_odds"
EvBetDone == pc = "done" /\ call.op = "_calculate_ev_bet"

\* devig_odds was called with valid home and away prices and a valid or no draw price
DevigValid ==
    /\ DevigDone
    /\ ValidPrice(call.home_odds)
    /\ ValidPrice(call.away_odds)
    /\ (call.draw_odds = None \/ ValidPrice(call.draw_odds))

\* the EV of a side of a returned EVBet
SideEv(side) ==
    IF side = "home" THEN ret.home_ev
    ELSE IF side = "away" THEN ret.away_ev ELSE ret.draw_ev

\* the sides of a returned EVBet that have both an offered and a fair price
PricedSides ==
    {"home", "away"}
    \cup (IF Truthy(ret.betmgm_draw_odds) /\ Truthy(ret.fair_draw_odds)
          THEN {"draw"} ELSE {})

\* every price supplied in a moneyline dictionary is valid
AllValid(d) == \A k \in DOMAIN d : d[k] = None \/ ValidPrice(d[k])

\* C2: for every EVBet returned by _calculate_ev_bet (here already for calls
\* whose supplied prices are all valid), best_bet is a side that has both an
\* offered and a fair price, max_ev is the EV of that side, and no side with
\* both prices has a larger EV.
C2_BestBetIsArgmax ==
    (EvBetDone /\ ret.kind = "EVBet"
     /\ AllValid(call.pinnacle_odds) /\ AllValid(call.betmgm_odds)) =>
        /\ ret.best_bet \in PricedSides
        /\ ret.max_ev = SideEv(ret.best_bet)
        /\ \A s \in PricedSides : Le(SideEv(s), ret.max_ev)

\* C8: for valid home and away prices and an optional valid draw price the
\* fair probabilities returned by devig_odds sum to 1.
C8_FairProbsSumToOne ==
    DevigValid =>
        /\ ret.raised = ""
        /\ Add(Add(ret.fair_home_prob, ret.fair_away_prob),
               IF call.draw_odds = None THEN Zero ELSE ret.fair_draw_prob) = One

\* a three-way devig of a book with a margin has been computed
C8_Witness ==
    /\ DevigValid
    /\ call.draw_odds # None
    /\ ret.raised = ""
    /\ ret.overround # One

ReciprocalSum ==
    Add(Add(Frac(call.home_odds.d, call.home_odds.n),
            Frac(call.away_odds.d, call.away_odds.n)),
        IF call.draw_odds = None THEN Zero
        ELSE Frac(call.draw_odds.d, call.draw_odds.n))

NonPositive(x) == x # None /\ IsNum(x) /\ Le(x, Zero)

\* some price supplied in a moneyline dictionary is zero or negative
HasNonPositive(d) == \E k \in DOMAIN d : NonPositive(d[k])

\* C10: a zero or negative price never yields fair probabilities or an EVBet:
\* devig_odds raises, and _calculate_ev_bet returns None or raises.
C10_NonPositivePriceRejected ==
    /\ (DevigDone /\ (NonPositive(call.home_odds) \/ NonPositive(call.away_odds)
                      \/ NonPositive(call.draw_odds)))
           => ret.raised # ""
    /\ (EvBetDone /\ (HasNonPositive(call.pinnacle_odds)
                      \/ HasNonPositive(call.betmgm_odds)))
           => ret.kind # "EVBet"

\* the four home and away moneyline prices of a call of _calculate_ev_bet
FourPrices ==
    {Get(call.pinnacle_odds, "home_odds"), Get(call.pinnacle_odds, "away_odds"),
     Get(call.betmgm_odds, "home_odds"), Get(call.betmgm_odds, "away_odds")}

\* C12: _calculate_ev_bet returns None whenever one of the four home and
\* away prices is missing (absent from its dictionary or None), and every
\* EVBet it returns was computed from four present prices.
C12_MissingPriceGivesNoBet ==
    EvBetDone =>
        /\ (None \in FourPrices => ret.kind = "None")
        /\ (ret.kind = "EVBet" =>
               /\ None \notin FourPrices
               /\ ret.pinnacle_home_odds # None /\ ret.pinnacle_away_odds # None
               /\ ret.betmgm_home_odds # None /\ ret.betmgm_away_odds # None
               /\ ret.home_ev # None /\ ret.away_ev # None)

\* both dictionaries are non-empty, only the Pinnacle away price is missing,
\* the three other prices are valid, and no bet was returned
C12_Witness ==
    /\ EvBetDone
    /\ Get(call.pinnacle_odds, "away_odds") = None
    /\ ValidPrice(Get(call.pinnacle_odds, "home_odds"))
    /\ ValidPrice(Get(call.betmgm_odds, "home_odds"))
    /\ ValidPrice(Get(call.betmgm_odds, "away_odds"))
    /\ ret.kind = "None"

(***************************************************************************)
(* Properties of find_ev_bets (SpecFind)                                   *)
(***************************************************************************)
FindDone == pc = "done" /\ call.op = "find_ev_bets"

\* find_ev_bets has returned a list
FindReturned == FindDone /\ ret.raised = ""

\* the matched events of the call and what _calculate_ev_bet gives for them
Matched == _match_events(call.pinnacle_odds, call.betmgm_odds)
Computed(i) == BetOf(Matched[i], call.event_odds)

\* the matched events whose EVBet has max_ev >= min_ev
AtOrAbove ==
    {i \in DOMAIN Matched :
        Computed(i).kind = "EVBet" /\ ~Lt(Computed(i).max_ev, call.min_ev)}

\* the bets held by the files of the output directory
Persisted == UNION {{f.content[k] : k \in DOMAIN f.content} : f \in files}

\* C13: find_ev_bets returns and persists exactly the EVBets of the matched
\* events whose max_ev >= min_ev: no returned bet has max_ev below min_ev,
\* no computed bet at or above it is left out, and the bets saved are the
\* bets returned.
C13_ReportedIffAtOrAboveMinEv ==
    FindReturned =>
        /\ \A j \in DOMAIN ret.ev_bets :
              /\ ret.ev_bets[j].kind = "EVBet"
              /\ ~Lt(ret.ev_bets[j].max_ev, call.min_ev)
              /\ \E i \in AtOrAbove : ret.ev_bets[j] = Computed(i)
        /\ \A i \in AtOrAbove : \E j \in DOMAIN ret.ev_bets : ret.ev_bets[j] = Computed(i)
        /\ Len(ret.ev_bets) = Cardinality(AtOrAbove)
        /\ Persisted = {ret.ev_bets[j] : j \in DOMAIN ret.ev_bets}
        /\ \A f \in files : f.content = ret.ev_bets

\* a bet exactly at the threshold was returned and saved while a bet below
\* the threshold was computed and left out
C13_Witness ==
    /\ FindReturned
    /\ \E j \in DOMAIN ret.ev_bets : ret.ev_bets[j].max_ev = call.min_ev
    /\ \E i \in DOMAIN Matched :
          Computed(i).kind = "EVBet" /\ Lt(Computed(i).max_ev, call.min_ev)
    /\ files # {}

(***************************************************************************)
(* Properties of calculate_ev in binary64 arithmetic (SpecFloat)           *)
(***************************************************************************)
EvDone == pc = "done" /\ call.op = "calculate_ev"

\* calculate_ev was called with the offered price equal to the fair price
AtFairPrice == EvDone /\ call.odds = call.fair_odds

\* C11 as stated: calculate_ev(p, p) = 0 for every price p > 1.
C11_FairPriceEvIsZero ==
    AtFairPrice => ret = FZero

\* one rounding error of the product odds * fair_prob below 1.0, as a
\* percentage: -100 * 2^-MantissaBits
OneRoundingBelow == [s |-> 0 - 1, b |-> ToBits(25), x |-> 2 - MantissaBits]

\* C11 amended: calculate_ev(p, p) is 0.0 up to one rounding error: it is
\* either 0.0 or -100 * 2^-53, and it is 0.0 when p is a power of two.
C11_FairPriceEvWithinRounding ==
    AtFairPrice =>
        /\ ret \in {FZero, OneRoundingBelow}
        /\ (call.odds.b = <<1>> => ret = FZero)

\* calculate_ev(12.25, 12.25) has returned a non-zero EV
C11_Witness ==
    /\ AtFairPrice
    /\ call.odds = Float(49, 0 - 2)
    /\ ret = OneRoundingBelow

(***************************************************************************)
(* Properties of _make_predictions (SpecPred)                              *)
(***************************************************************************)
PredDone == pc = "done" /\ call.op = "_make_predictions"

\* the models that produced a prediction: no required feature is missing
\* from the feature table and the predict call did not fail
Predicted ==
    {k \in DOMAIN call.models :
        /\ call.models[k].feature_names \subseteq call.features.columns
        /\ ~call.models[k].raises}

RECURSIVE SumProb(_, _)
\* the sum over the models of ks of their probability for row i
SumProb(i, ks) ==
    IF ks = {} THEN Zero
    ELSE LET k == CHOOSE x \in ks : TRUE
         IN  Add(call.models[k].y_prob[i], SumProb(i, ks \ {k}))

\* the arithmetic mean of the probabilities of the models that predicted
ModelMean(i) == Div(SumProb(i, Predicted), Num(Cardinality(Predicted)))

\* C3: for each event, ensemble_probability is the arithmetic mean of the
\* positive-class probabilities of exactly the models that produced a
\* prediction for it; no other value enters the mean.
C3_EnsembleProbabilityIsModelMean ==
    (PredDone /\ Predicted # {}) =>
        /\ Col("ensemble", "probability") \in ret.columns
        /\ \A i \in DOMAIN ret.rows :
              ret.rows[i][Col("ensemble", "probability")] = ModelMean(i)

\* the number of models that predicted class v for row i
Votes(i, v) == Cardinality({k \in Predicted : call.models[k].y_pred[i] = v})

\* the classes a model can predict
Classes == {0, 1}

\* C14: for each event, ensemble_prediction is the most frequent class among
\* the predictions of the models that predicted; of two equally frequent
\* classes it is the one that sorts first.
C14_EnsemblePredictionIsMode ==
    (PredDone /\ Predicted # {}) =>
        /\ Col("ensemble", "prediction") \in ret.columns
        /\ \A i \in DOMAIN ret.rows :
              LET v == ret.rows[i][Col("ensemble", "prediction")]
              IN  /\ v \in Classes
                  /\ Votes(i, v) > 0
                  /\ \A w \in Classes :
                        \/ Votes(i, w) < Votes(i, v)
                        \/ (Votes(i, w) = Votes(i, v) /\ v <= w)

\* the classes 0 and 1 got the same number of votes for an event and the
\* ensemble prediction is 0
C14_Witness ==
    /\ PredDone
    /\ \E i \in DOMAIN ret.rows :
          /\ Votes(i, 0) = Votes(i, 1)
          /\ Votes(i, 0) > 0
          /\ ret.rows[i][Col("ensemble", "prediction")] = 0

\* the two ensemble columns
EnsembleColumns == {Col("ensemble", "prediction"), Col("ensemble", "probability")}

\* models were loaded and none of them produced a prediction
NonePredicted == PredDone /\ call.models # <<>> /\ Predicted = {}

\* C15 as stated: if no model produces a usable prediction for an event,
\* the event is absent from the prediction output and it is given no
\* ensemble probability.
C15_UnpredictedEventAbsent ==
    NonePredicted =>
        /\ ret.rows = <<>>
        /\ Col("ensemble", "probability") \notin ret.columns

\* C15 amended: if no model produces a usable prediction, the output keeps
\* every event with its features unchanged and has no ensemble_prediction
\* and no ensemble_probability column: no probability is made up.
C15_UnpredictedEventKeptWithoutEnsemble ==
    NonePredicted =>
        /\ ret = call.features
        /\ ret.columns \cap EnsembleColumns = {}

\* every loaded model failed on a table that carries bookmaker odds, and the
\* event is in the output
C15_Witness ==
    /\ NonePredicted
    /\ Col("home_implied", "probability") \in call.features.columns
    /\ ret.rows # <<>>

\* the models that predicted, in their order
Working == SelectSeq(call.models, LAMBDA m : m.feature_names \subseteq call.features.columns /\ ~m.raises)

\* C16: a model that lacks a required feature, or whose prediction call
\* fails, contributes to neither the vote nor the mean: the output has no
\* column of that model, and the two ensemble columns are those of a run
\* with the working models alone.
C16_FailedModelContributesNothing ==
    PredDone =>
        /\ \A k \in DOMAIN call.models \ Predicted :
              ret.columns \cap {Col(ModelName(k), "prediction"),
                                Col(ModelName(k), "probability")} = {}
        /\ LET alone == _make_predictions(call.features, Working)
           IN  /\ ret.columns \cap EnsembleColumns = alone.columns \cap EnsembleColumns
               /\ \A i \in DOMAIN ret.rows :
                     \A c \in ret.columns \cap EnsembleColumns :
                         ret.rows[i][c] = alone.rows[i][c]

\* a model that lacks a feature, a model whose call fails and a model that
\* predicts class 1 were loaded together
C16_Witness ==
    /\ PredDone
    /\ \E k \in DOMAIN call.models : ~(call.models[k].feature_names \subseteq call.features.columns)
    /\ \E k \in DOMAIN call.models : call.models[k].raises
    /\ \E k \in Predicted : call.models[k].y_pred[1] = 1
    /\ ret.rows[1][Col("ensemble", "prediction")] = 1

(***************************************************************************)
(* Properties of get_value_bets (SpecValue)                                *)
(***************************************************************************)
ValueDone == pc = "done" /\ call.op = "get_value_bets"

\* the edge of a returned ValueBet: the value of the side it is flagged for
Edge(row) == IF row[HomeValueBet] THEN row[HomeValue] ELSE row[AwayValue]

\* C4: get_value_bets returns the ValueBets in non-increasing order of edge,
\* the edge being home_value for a home-side bet and away_value for an
\* away-side bet.
C4_RankedByEdge ==
    ValueDone =>
        \A i, j \in DOMAIN ret.rows :
            i < j => ~Lt(Edge(ret.rows[i]), Edge(ret.rows[j]))

\* C5: every returned row is flagged for a side for which the confidence
\* test passes, the model probability exceeds the market-implied probability
\* (edge > 0) and ensemble_prediction names that side.
C5_FlaggedSideQualifies ==
    ValueDone =>
        \A j \in DOMAIN ret.rows :
            LET row == ret.rows[j]
                p == row[EnsembleProbability]
                th == call.confidence_threshold
            IN  \/ /\ row[HomeValueBet]
                   /\ Gt(p, th)
                   /\ Gt(p, row[HomeImpliedProbability])
                   /\ Gt(Sub(p, row[HomeImpliedProbability]), Zero)
                   /\ row[EnsemblePrediction] = 1
                \/ /\ row[AwayValueBet]
                   /\ Lt(p, Sub(One, th))
                   /\ Gt(Sub(One, p), row[AwayImpliedProbability])
                   /\ Gt(Sub(Sub(One, p), row[AwayImpliedProbability]), Zero)
                   /\ row[EnsemblePrediction] = 0

\* a home-side and an away-side ValueBet have been returned together
C5_Witness ==
    /\ ValueDone
    /\ \E i, j \in DOMAIN ret.rows : ret.rows[i][HomeValueBet] /\ ret.rows[j][AwayValueBet]

\* C6: no row returned by get_value_bets has the final status.
C6_NoFinalReturned ==
    ValueDone =>
        \A j \in DOMAIN ret.rows : ret.rows[j][Status] # "STATUS_FINAL"

\* a finished game that passes every other test was left out while another
\* event was returned
C6_Witness ==
    /\ ValueDone
    /\ ret.rows # <<>>
    /\ \E i \in DOMAIN call.predictions.rows :
          LET row == call.predictions.rows[i]
          IN  /\ row[Status] = "STATUS_FINAL"
              /\ row[EnsemblePrediction] = 1
              /\ Gt(row[EnsembleProbability], call.confidence_threshold)
              /\ Lt(row[HomeImpliedProbability], row[EnsembleProbability])
              /\ \A j \in DOMAIN ret.rows : ret.rows[j][Index] # i

\* the event of a predictions table with every column qualifies for the home side
HomeQualifies(row) ==
    /\ row[Status] # "STATUS_FINAL"
    /\ row[EnsemblePrediction] = 1
    /\ Gt(row[EnsembleProbability], call.confidence_threshold)
    /\ Lt(row[HomeImpliedProbability], row[EnsembleProbability])

\* C7: every non-final event with ensemble_prediction = 1, ensemble_probability
\* above the threshold and home_implied_probability below ensemble_probability
\* is returned as a home-side ValueBet whose home_value is ensemble_probability
\* minus home_implied_probability.
C7_HomeValueBetReturned ==
    (ValueDone /\ AllPredictionColumns \subseteq call.predictions.columns) =>
        \A i \in DOMAIN call.predictions.rows :
            HomeQualifies(call.predictions.rows[i]) =>
                \E j \in DOMAIN ret.rows :
                    /\ ret.rows[j][Index] = i
                    /\ ret.rows[j][HomeValueBet]
                    /\ ~ret.rows[j][AwayValueBet]
                    /\ ret.rows[j][HomeValue] =
                           Sub(call.predictions.rows[i][EnsembleProbability],
                               call.predictions.rows[i][HomeImpliedProbability])

\* the scenario of the specification: 0.75 against an implied 0.40 at
\* threshold 0.7 was returned with edge 0.35
C7_Witness ==
    /\ ValueDone
    /\ call.confidence_threshold = Frac(7, 10)
    /\ \E j \in DOMAIN ret.rows :
          /\ ret.rows[j][Status] = "STATUS_SCHEDULED"
          /\ ret.rows[j][EnsembleProbability] = Frac(3, 4)
          /\ ret.rows[j][HomeImpliedProbability] = Frac(2, 5)
          /\ ret.rows[j][HomeValueBet]
          /\ ret.rows[j][HomeValue] = Frac(7, 20)

(***************************************************************************)
(* Properties of _match_events (SpecMatch)                                 *)
(***************************************************************************)
MatchDone == pc = "done" /\ call.op = "_match_events"

\* every Pinnacle event of the call carries both team names
AllNamed ==
    \A l \in DOMAIN call.pinnacle_odds :
        \A i \in DOMAIN call.pinnacle_odds[l].events :
            {"home", "away"} \subseteq DOMAIN call.pinnacle_odds[l].events[i]

\* C1: every Pinnacle event and every BetMGM event appears in at most one
\* returned pair; a BetMGM event that has been paired is not paired again
\* with a later Pinnacle event (here already for feeds in which every event
\* carries both team names).
C1_AtMostOnePairPerEvent ==
    (MatchDone /\ AllNamed) =>
        \A i, j \in DOMAIN ret :
            i # j =>
                /\ ret[i].pinnacle_event.id # ret[j].pinnacle_event.id
                /\ ret[i].betmgm_event.id # ret[j].betmgm_event.id

\* the events of the Pinnacle feed of the call, all leagues together
PinnacleEvents ==
    UNION {{call.pinnacle_odds[l].events[i] : i \in DOMAIN call.pinnacle_odds[l].events} :
              l \in DOMAIN call.pinnacle_odds}

\* the name an event carries under a key, '' when there is none
NameOf(event, key) ==
    IF key \in DOMAIN event /\ "name" \in DOMAIN event[key] THEN event[key].name ELSE <<>>

\* one name is contained in the other, case aside
SubstringTest(a, b) ==
    IsSubstring(lower(a), lower(b)) \/ IsSubstring(lower(b), lower(a))

\* the home names pass the test and the away names pass the test
PassesBothTests(a, b) ==
    /\ SubstringTest(NameOf(a, "home"), NameOf(b, "home_team"))
    /\ SubstringTest(NameOf(a, "away"), NameOf(b, "away_team"))

\* the Pinnacle event is in a returned pair
Paired(a, pairs) == \E k \in DOMAIN pairs : pairs[k].pinnacle_event = a

\* C17: _match_events pairs a with b only if the case-insensitive substring
\* test succeeds for the home names and for the away names, and a Pinnacle
\* event for which some BetMGM event passes both tests is always paired.
C17_PairedIffBothTestsPass ==
    MatchDone =>
        /\ \A k \in DOMAIN ret :
              /\ ret[k].pinnacle_event \in PinnacleEvents
              /\ \E j \in DOMAIN call.betmgm_odds : ret[k].betmgm_event = call.betmgm_odds[j]
              /\ PassesBothTests(ret[k].pinnacle_event, ret[k].betmgm_event)
        /\ \A a \in PinnacleEvents :
              (\E j \in DOMAIN call.betmgm_odds : PassesBothTests(a, call.betmgm_odds[j]))
                  => Paired(a, ret)

\* one event was paired on names that differ in case and length, and another
\* one, whose home name passes the test but whose away name does not, was
\* left out
C17_Witness ==
    /\ MatchDone
    /\ \E k \in DOMAIN ret :
          /\ NameOf(ret[k].pinnacle_event, "home") = <<"L">>
          /\ NameOf(ret[k].betmgm_event, "home_team") = <<"a", " ", "l">>
    /\ \E a \in PinnacleEvents, j \in DOMAIN call.betmgm_odds :
          /\ ~Paired(a, ret)
          /\ SubstringTest(NameOf(a, "home"), NameOf(call.betmgm_odds[j], "home_team"))
          /\ ~SubstringTest(NameOf(a, "away"), NameOf(call.betmgm_odds[j], "away_team"))

\* neither whitespace nor punctuation
IsLetter(c) == c # " "

\* a name in lower case without its whitespace and punctuation
Normalised(name) == SelectSeq(lower(name), IsLetter)

\* the names of the two events differ in case, whitespace or punctuation only
SameNormalisedNames(a, b) ==
    /\ Normalised(NameOf(a, "home")) = Normalised(NameOf(b, "home_team"))
    /\ Normalised(NameOf(a, "away")) = Normalised(NameOf(b, "away_team"))

\* C18: names are normalised by lowercasing and by stripping whitespace and
\* punctuation, so a Pinnacle event whose names differ from those of some
\* BetMGM event only in case, whitespace or punctuation is matched.
C18_NamesNormalisedBeforeComparison ==
    MatchDone =>
        \A a \in PinnacleEvents :
            (\E j \in DOMAIN call.betmgm_odds : SameNormalisedNames(a, call.betmgm_odds[j]))
                => Paired(a, ret)

\* the pairs as a set
PairSet(pairs) ==
    {<<pairs[k].pinnacle_event, pairs[k].betmgm_event>> : k \in DOMAIN pairs}

\* the lists that hold the elements of a list in some order
Reorderings(list) ==
    {[i \in DOMAIN list |-> list[q[i]]] :
        q \in {f \in [DOMAIN list -> DOMAIN list] :
                  \A i, j \in DOMAIN list : f[i] = f[j] => i = j}}

\* C19: the set of matched pairs does not depend on the order of the events
\* in either source: _match_events on any reordering of the two event lists
\* yields the same set of pairs (here already for feeds in which every
\* event carries both team names).
C19_PairSetIndependentOfOrder ==
    (MatchDone /\ AllNamed) =>
        \A pinnacle_events \in Reorderings(pinnacle_events_of(call.pinnacle_odds)),
           betmgm_odds \in Reorderings(call.betmgm_odds) :
            PairSet(_match_events(<<[events |-> pinnacle_events]>>, betmgm_odds))
                = PairSet(ret)

\* the position of a Pinnacle event in the iteration over the leagues
PositionOf(a) ==
    CHOOSE i \in DOMAIN pinnacle_events_of(call.pinnacle_odds) :
        pinnacle_events_of(call.pinnacle_odds)[i] = a

\* C24: for every returned pair (a, b), b is the first BetMGM event in
\* iteration order that passes the name test with a, and the pairs appear
\* in the iteration order of the Pinnacle events.
C24_FirstMatchInSourceOrder ==
    MatchDone =>
        /\ \A k \in DOMAIN ret :
              \E j \in DOMAIN call.betmgm_odds :
                 /\ ret[k].betmgm_event = call.betmgm_odds[j]
                 /\ PassesBothTests(ret[k].pinnacle_event, call.betmgm_odds[j])
                 /\ \A h \in 1..(j - 1) :
                       ~PassesBothTests(ret[k].pinnacle_event, call.betmgm_odds[h])
        /\ \A k, l \in DOMAIN ret :
              k < l => PositionOf(ret[k].pinnacle_event) < PositionOf(ret[l].pinnacle_event)

\* two Pinnacle events were paired, the first of them with the second
\* BetMGM event, and the second of them passes the test with both BetMGM
\* events
C24_Witness ==
    /\ MatchDone
    /\ Len(ret) = 2
    /\ Len(call.betmgm_odds) = 2
    /\ ret[1].betmgm_event = call.betmgm_odds[2]
    /\ ret[2].betmgm_event = call.betmgm_odds[1]
    /\ PassesBothTests(ret[2].pinnacle_event, call.betmgm_odds[2])

\* the Pinnacle events that carry neither team name
WithoutNames == {a \in PinnacleEvents : DOMAIN a \cap {"home", "away"} = {}}

\* C30: a missing team name is compared as the empty string, which is a
\* substring of every name: a Pinnacle event that lacks both team names is
\* paired with the first BetMGM event, whatever its teams are.
C30_NamelessEventPairedWithFirst ==
    MatchDone =>
        \A a \in WithoutNames :
            call.betmgm_odds # <<>> =>
                \E k \in DOMAIN ret :
                    /\ ret[k].pinnacle_event = a
                    /\ ret[k].betmgm_event = call.betmgm_odds[1]

\* an event without names was paired with the first of two BetMGM events
\* that list different teams
C30_Witness ==
    /\ MatchDone
    /\ Len(call.betmgm_odds) = 2
    /\ NameOf(call.betmgm_odds[1], "home_team") # NameOf(call.betmgm_odds[2], "home_team")
    /\ NameOf(call.betmgm_odds[1], "away_team") # NameOf(call.betmgm_odds[2], "away_team")
    /\ \E k \in DOMAIN ret :
          /\ ret[k].pinnacle_event \in WithoutNames
          /\ ret[k].betmgm_event = call.betmgm_odds[1]

(***************************************************************************)
(* Properties of find_ev_bets on empty and unmatched feeds (SpecFind)      *)
(***************************************************************************)
\* one of the two sources lists no event
EmptySource == PinnacleEvents = {} \/ call.betmgm_odds = <<>>

\* the Pinnacle events for which no BetMGM event passes both name tests
Unmatched ==
    {a \in PinnacleEvents :
        \A j \in DOMAIN call.betmgm_odds : ~PassesBothTests(a, call.betmgm_odds[j])}

\* C20: with an empty event list from either source _match_events returns
\* an empty list and find_ev_bets returns an empty list without raising
\* (and saves nothing); a Pinnacle event with no matching BetMGM event is in
\* no pair and in no bet, and when no event is matched find_ev_bets returns
\* an empty list without raising.
C20_EmptyOrUnmatchedGivesNoPairNoError ==
    FindDone =>
        /\ EmptySource => Matched = <<>>
        /\ (EmptySource \/ Unmatched = PinnacleEvents) =>
              /\ ret = [raised |-> "", ev_bets |-> <<>>]
              /\ files = NoFiles
        /\ \A a \in Unmatched :
              /\ ~Paired(a, Matched)
              /\ \A j \in DOMAIN ret.ev_bets : ret.ev_bets[j].pinnacle_event_id # a.id

\* a call in which one Pinnacle event had no matching BetMGM event while
\* another one was matched and gave a bet
C20_Witness ==
    /\ FindReturned
    /\ call.betmgm_odds # <<>>
    /\ Unmatched # {}
    /\ ret.ev_bets # <<>>

\* the matched events whose per-event BetMGM fetch failed with no cache
FetchFailed ==
    {i \in DOMAIN Matched : call.event_odds[Matched[i].betmgm_event.id].json = "list"}

\* C22: a failed network fetch never surfaces as an exception inside
\* find_ev_bets: when the per-event BetMGM fetch fails and no cache exists,
\* the affected event yields no bet and the remaining matched events are
\* still processed (their bets at or above min_ev are returned).
C22_FailedEventFetchAbsorbed ==
    FindDone =>
        /\ ret.raised = ""
        /\ \A i \in FetchFailed :
              \A j \in DOMAIN ret.ev_bets :
                 ret.ev_bets[j].pinnacle_event_id # Matched[i].pinnacle_event.id
        /\ \A i \in AtOrAbove : \E j \in DOMAIN ret.ev_bets : ret.ev_bets[j] = Computed(i)

(***************************************************************************)
(* Properties of the persisted bets (SpecStore)                            *)
(***************************************************************************)
GetDone == pc = "done" /\ call.op = "get_ev_features"

\* the team names of the bet pass the substring tests with those of the
\* event
BetMatches(bet, event) ==
    /\ SubstringTest(event.home_team_name, bet.home_team)
    /\ SubstringTest(event.away_team_name, bet.away_team)

\* the files that hold a bet for the event
FilesFor(event) ==
    {f \in files : \E k \in DOMAIN f.content : BetMatches(f.content[k], event)}

\* the first bet for the event in the file
FirstBetFor(f, event) ==
    f.content[CHOOSE k \in DOMAIN f.content :
                 /\ BetMatches(f.content[k], event)
                 /\ \A h \in 1..(k - 1) : ~BetMatches(f.content[h], event)]

\* the file for the event that was written last
NewestFor(event) ==
    CHOOSE f \in FilesFor(event) :
        \A g \in FilesFor(event) : g.name.timestamp <= f.name.timestamp

\* C25: after any sequence of find_ev_bets runs that persisted bets, for any
\* sports and leagues, get_ev_features for a matchup returns the features
\* of the matching bet of the most recently written file.
C25_FeaturesFromNewestFile ==
    (GetDone /\ ret.raised = "" /\ FilesFor(call.event) # {}) =>
        /\ ret.features # <<>>
        /\ \A k \in CopiedKeys :
              ret.features[k] = FirstBetFor(NewestFor(call.event), call.event)[k]

\* C26: get_ev_features returns a features dictionary with draw_value false
\* for a persisted two-outcome EVBet, whose draw_ev is null; the absent
\* draw side does not make it raise.
C26_TwoOutcomeBetGivesFeatures ==
    (GetDone /\ files # {}) =>
        \A f \in {g \in files : \A h \in files : h = g \/ NameLess(h.name, g.name)} :
            (BetMatches(f.content[1], call.event) /\ f.content[1].draw_ev = None) =>
                /\ ret.raised = ""
                /\ ret.features # <<>>
                /\ ret.features["draw_value"] = FALSE

CycleDone == pc = "done" /\ call.op = "_add_ev_data"

\* the files written before the call
Earlier == {f \in files : f.name.timestamp < call.now}

\* C28: in _add_ev_data the features of every row are read before
\* find_ev_bets is invoked, so the features attached to the rows of a cycle
\* come from the bets persisted by earlier cycles and never from the bets
\* computed in the same cycle.
C28_FeaturesFromEarlierCycles ==
    (CycleDone /\ ret.raised = "") =>
        \A i \in DOMAIN call.rows :
            ret.rows[i] = get_ev_features(Earlier, call.rows[i]).features

\* a cycle attached the features of an earlier bet to its row and persisted
\* a bet of its own for the same row
C28_Witness ==
    /\ CycleDone
    /\ ret.raised = ""
    /\ ret.rows[1] # <<>>
    /\ \E f \in files :
          /\ f.name.timestamp = call.now
          /\ BetMatches(f.content[1], call.rows[1])
          /\ f.content[1].max_ev # ret.rows[1]["max_ev"]

\* C29: a find_ev_bets run in which no bet reaches min_ev writes no file
\* and leaves every persisted file unchanged, so get_ev_features afterwards
\* returns what it returned before the run.
C29_RunWithoutBetsLeavesFiles ==
    [][(pc = "call" /\ call.op = "find_ev_bets" /\ pc' = "done" /\ ret'.ev_bets = <<>>) =>
          /\ files' = files
          /\ \A t \in Fixtures :
                get_ev_features(files', RowOf(t)) = get_ev_features(files, RowOf(t))]_vars

\* a run whose only bet stayed below min_ev returned nothing while the
\* directory held a file of an earlier run
C29_Witness ==
    /\ FindReturned
    /\ ret.ev_bets = <<>>
    /\ \E i \in DOMAIN Matched : Computed(i).kind = "EVBet"
    /\ files # {}

(***************************************************************************)
(* Properties of the scrapers' fetches (SpecFetch)                         *)
(***************************************************************************)
FetchOps == {"pinnacle.fetch_odds", "betmgm.fetch_odds", "betmgm.fetch_event_odds"}

\* the cache file of a call of a fetch
CacheFileOf(c) ==
    IF c.op = "pinnacle.fetch_odds" THEN pinnacle_cache_file(c)
    ELSE IF c.op = "betmgm.fetch_odds" THEN betmgm_cache_file(c)
    ELSE event_cache_file(c)

\* a fetch returned, its request had failed and its cache file does not exist
FailedWithoutCache ==
    /\ pc = "done"
    /\ call.op \in FetchOps
    /\ call.response.kind \in RequestExceptions
    /\ CacheFileOf(call) \notin DOMAIN cache

\* C21: each of the three fetches returns the empty list and raises nothing
\* when its request fails and its cache file does not exist.
C21_FailedFetchWithoutCacheGivesEmptyList ==
    FailedWithoutCache => ret = [raised |-> "", value |-> JsonList(<<>>)]

\* the per-event fetch timed out with no cache file of its own, while the
\* cache directory holds a file of another request
C21_Witness ==
    /\ FailedWithoutCache
    /\ call.op = "betmgm.fetch_event_odds"
    /\ call.response.kind = "Timeout"
    /\ DOMAIN cache # {}

\* a call of fetch_odds that is about to be served from its cache file: the
\* file is fresh, or the request fails and the file exists
ServedFromCache ==
    /\ pc = "call"
    /\ call.op \in {"pinnacle.fetch_odds", "betmgm.fetch_odds"}
    /\ CacheFileOf(call) \in DOMAIN cache
    /\ (cache[CacheFileOf(call)].fresh \/ call.response.kind \in RequestExceptions)

\* C27: a call of fetch_odds served from the cache returns the value that
\* the successful live call which wrote the cache file returned.
C27_CachedValueIsLiveValue ==
    [][(ServedFromCache /\ pc' = "done")
          => ret'.value = cache[CacheFileOf(call)].returned]_vars

(***************************************************************************)
(* Properties of run_pipeline (SpecPipeline)                               *)
(***************************************************************************)
\* a run of the pipeline ended after its last step
PipelineDone ==
    /\ pc = "done"
    /\ call.op = "run_pipeline"
    /\ ret # NoRet
    /\ ret.value_bets # NotReached

\* C23: the predictions and the value bets of a run of run_pipeline are
\* computed from the data that its data-processing step (step 1) produced.
C23_PredictionsFromStep1Data ==
    PipelineDone =>
        /\ ret.predictions = predictions_from(ret.data, call.models)
        /\ ret.value_bets = get_value_bets(predictions_from(ret.data, call.models),
                                           confidence_threshold)

====
